---- MODULE Spec2Model ----
(***************************************************************************)
(* MiniClaw: a Telegram bot that runs shell commands for authorised        *)
(* operators, directly, through LLM suggestions that need a /yes, or on a  *)
(* schedule.                                                               *)
(*                                                                         *)
(* The specifications of the module, which share its variables:           *)
(*   Spec         the bot: one task per inbound message (bot.go)           *)
(*   SpecCore     the bot with /exec and /run, for authorised senders      *)
(*   SpecExtract  ExtractBashCommands applied to generated texts           *)
(*   SpecRun      Executor.Run applied to every outcome of the OS process  *)
(*   SpecKill     the processes of one Executor.Run and its deadline       *)
(*   SpecFiles    SaveFile, ReadFile, DeleteFile, RunScript on a workspace *)
(*   SpecSched    the Scheduler: Add, Remove, runJob, persist and load     *)
(*   SpecList     the Scheduler with List and FormatJobList, no restart    *)
(*   SpecCron     Bot.handleCron: the /cron messages                       *)
(*   SpecSplit    Bot.sendMessage and splitMessage                         *)
(*   SpecChat     OllamaClient.Chat and ClearHistory                       *)
(***************************************************************************)
EXTENDS Integers, Sequences, FiniteSets, TLC

VARIABLES
    \* ---- the bot (Bot, OllamaClient) ----
    autoExecute,   \* config.Ollama.AutoExecute
    pendingCmds,   \* Bot.pendingCmds: sender id -> command
    tasks,         \* the goroutines started by Bot.Start, one per message
    nmsgs,         \* messages dispatched so far
    crashed,       \* the Go runtime ended the process (fatal error)
    \* ---- ExtractBashCommands ----
    doc,           \* the blocks the input text is made of
    response,      \* the input text
    commands,      \* the value returned
    xpc,
    \* ---- Executor.Run ----
    outcome,       \* what the operating system does with the process
    runResult,     \* the (result, error) pair returned
    rpc,
    \* ---- the processes of one Executor.Run ----
    procs,         \* the bash process and the processes it spawned
    ctxDone,       \* the context's deadline has passed
    waitResult,    \* the exit code Run returns
    kpc,
    \* ---- the workspace file operations ----
    fsys,          \* the directories and files that exist
    fname,         \* the filename argument
    fop,           \* the operation called
    fresult,       \* its error, the path it acted on, the path it executed
    fpc,
    \* ---- the Scheduler ----
    jobs,          \* Scheduler.jobs: id -> *CronJob
    timers,        \* the entries of Scheduler.cron: EntryID -> job id
    nextEntry,     \* the last EntryID the cron instance gave out
    file,          \* the contents of persistFile, or NoFile
    mu,            \* Scheduler.mu: free, or the operation that holds it
    runs,          \* the runJob goroutines in flight
    now,           \* the clock time.Now() reads
    call,          \* the last operation called, with its arguments
    ncalls,        \* operations called so far
    ret,           \* what the last operation returned
    lister,        \* the caller of Scheduler.List and the jobs it was handed
    \* ---- Bot.handleCron ----
    cmsg,          \* the /cron message: what the operator asks for, and its text
    cpc,
    creply,        \* the reply sent for it
    ccall,         \* the Scheduler operation it reached, with its arguments
    cjobs,         \* the Scheduler's table
    cn,            \* /cron messages received so far
    \* ---- Bot.sendMessage and splitMessage ----
    msgText,       \* sendMessage's text
    maxLen,        \* splitMessage's maxLen
    remaining,     \* splitMessage's text: what is still to split
    chunks,        \* splitMessage's chunks
    sentChunks,    \* the chunks handed to b.api.Send so far, and whether one arrived
    spc,
    \* ---- OllamaClient ----
    history,       \* OllamaClient.history
    chatters,      \* the Chat calls in flight
    nchats         \* Chat calls made so far

botVars == <<autoExecute, pendingCmds, tasks, nmsgs, crashed>>
extractVars == <<doc, response, commands, xpc>>
runVars == <<outcome, runResult, rpc>>
killVars == <<procs, ctxDone, waitResult, kpc>>
fileVars == <<fsys, fname, fop, fresult, fpc>>
schedVars == <<jobs, timers, nextEntry, file, mu, runs, now, call, ncalls, ret, lister>>
cronVars == <<cmsg, cpc, creply, ccall, cjobs, cn>>
splitVars == <<msgText, maxLen, remaining, chunks, sentChunks, spc>>
chatVars == <<history, chatters, nchats>>
moreVars == <<cronVars, splitVars, chatVars>>
auxVars == <<killVars, fileVars, schedVars, moreVars>>
vars == <<botVars, extractVars, runVars, auxVars>>

Nil == "nil"

(***************************************************************************)
(* Text.  A text is a sequence of tokens: the three-backtick fence, a      *)
(* language tag, a newline, a space, or a word.                            *)
(***************************************************************************)
Fence == "fence"
NL == "NL"
SP == "SP"
ShellTags == {"bash", "sh"}
OtherTag == "python"

IsSpace(tok) == tok \in {NL, SP}

\* strings.TrimSpace: the text without its leading and trailing white space.
TrimSpace(s) ==
    LET keep == {i \in 1..Len(s) : ~IsSpace(s[i])}
    IN  IF keep = {} THEN <<>>
        ELSE LET a == CHOOSE i \in keep : \A j \in keep : i <= j
                 b == CHOOSE i \in keep : \A j \in keep : j <= i
             IN  SubSeq(s, a, b)

\* strings.Join(parts, sep)
RECURSIVE Join(_, _)
Join(parts, sep) ==
    IF Len(parts) = 0 THEN <<>>
    ELSE IF Len(parts) = 1 THEN parts[1]
    ELSE parts[1] \o sep \o Join(Tail(parts), sep)

(***************************************************************************)
(* ExtractBashCommands.  bashBlockRegex is                                 *)
(*     (?s) fence (?:bash|sh)? newline (.*?) fence                         *)
(* and is not anchored to the start of a line.                             *)
(***************************************************************************)

\* The index of the newline that ends an opening "fence (bash|sh)? newline"
\* starting at i; 0 when none starts there.
OpenerEnd(s, i) ==
    IF i > Len(s) \/ s[i] # Fence THEN 0
    ELSE IF i + 2 <= Len(s) /\ s[i + 1] \in ShellTags /\ s[i + 2] = NL THEN i + 2
    ELSE IF i + 1 <= Len(s) /\ s[i + 1] = NL THEN i + 1
    ELSE 0

\* The lazy group stops at the first fence after index k; 0 when there is none.
LazyCloser(s, k) ==
    LET later == {j \in (k + 1)..Len(s) : s[j] = Fence}
    IN  IF later = {} THEN 0 ELSE CHOOSE j \in later : \A l \in later : j <= l

\* A greedy group would stop at the last fence instead.
GreedyCloser(s, k) ==
    LET later == {j \in (k + 1)..Len(s) : s[j] = Fence}
    IN  IF later = {} THEN 0 ELSE CHOOSE j \in later : \A l \in later : l <= j

\* The closing fence of a match whose opener ends at k.
Closer(s, k) == LazyCloser(s, k)

MatchesAt(s, i) == OpenerEnd(s, i) # 0 /\ Closer(s, OpenerEnd(s, i)) # 0

\* The leftmost match at or after from; 0 when there is none.
NextMatch(s, from) ==
    LET starts == {i \in from..Len(s) : MatchesAt(s, i)}
    IN  IF starts = {} THEN 0 ELSE CHOOSE i \in starts : \A j \in starts : i <= j

\* FindAllStringSubmatch, then the loop that trims and drops empty captures.
RECURSIVE ExtractFrom(_, _)
ExtractFrom(s, from) ==
    LET i == NextMatch(s, from)
    IN  IF i = 0 THEN <<>>
        ELSE LET k == OpenerEnd(s, i)
                 j == Closer(s, k)
                 cmd == TrimSpace(SubSeq(s, k + 1, j - 1))
             IN  (IF cmd # <<>> THEN <<cmd>> ELSE <<>>) \o ExtractFrom(s, j + 1)

ExtractBashCommands(s) == ExtractFrom(s, 1)

----------------------------------------------------------------------------
(***************************************************************************)
(* SpecExtract: texts made of fenced blocks, with prose before each.       *)
(***************************************************************************)
MaxBlocks == 3

Bodies == { <<"ls">>, <<"pwd">>, <<SP>>, <<"ls", NL, Fence, NL, "pwd">> }
Proses == { <<>>, <<"note">> }
Tags == ShellTags \cup {OtherTag}
Segments == [tag : Tags, body : Bodies, prose : Proses]
Docs == UNION {[1..n -> Segments] : n \in 1..MaxBlocks}

\* A block on lines of its own: the opening fence with its tag, the body,
\* the closing fence.
RenderBlock(seg) ==
    (IF seg.prose = <<>> THEN <<>> ELSE seg.prose \o <<NL>>)
        \o <<Fence, seg.tag, NL>> \o seg.body \o <<NL, Fence, NL>>

RECURSIVE Render(_)
Render(d) == IF Len(d) = 0 THEN <<>> ELSE RenderBlock(Head(d)) \o Render(Tail(d))

ExtractIdle == /\ doc = <<>> /\ response = <<>> /\ commands = <<>> /\ xpc = "off"

InitExtract ==
    /\ doc \in Docs
    /\ response = Render(doc)
    /\ commands = <<>>
    /\ xpc = "call"

CallExtract ==
    /\ xpc = "call"
    /\ commands' = ExtractBashCommands(response)
    /\ xpc' = "done"
    /\ UNCHANGED <<doc, response, botVars, runVars, auxVars>>

NextExtract == CallExtract

----------------------------------------------------------------------------
(***************************************************************************)
(* Executor.Run.  The operating system decides the outcome: whether the    *)
(* process could be started, how it ended, what it wrote, and whether the  *)
(* context's deadline had passed when Run looked at ctx.Err().             *)
(***************************************************************************)
MaxStatus == 2
MaxStream == 3
MaxOutputBytes == 2

TimeoutSentinel == -1
SignalExitCode == -1

TruncMarker == <<"... [truncated]">>
TimeoutMarker == <<"TIMEOUT">>

\* The captured bytes of a stream of n bytes.
Stream(n) == [i \in 1..n |-> ToString(i)]

Outcomes ==
    [started : {FALSE}, expired : BOOLEAN, end : {"none"}, status : {0},
     stdout : {0}, stderr : {0}]
    \cup
    [started : {TRUE}, expired : BOOLEAN, end : {"exit"}, status : 0..MaxStatus,
     stdout : 0..MaxStream, stderr : 0..MaxStream]
    \cup
    [started : {TRUE}, expired : BOOLEAN, end : {"signal"}, status : {0},
     stdout : 0..MaxStream, stderr : 0..MaxStream]

\* err of cmd.Run(): nil, an *exec.ExitError, or another error.
CmdRun(o) ==
    IF ~o.started THEN "StartError"
    ELSE IF o.end = "exit" /\ o.status = 0 THEN Nil
    ELSE "ExitError"

\* exitErr.ExitCode(): the status, or -1 for a process ended by a signal.
ExitCode(o) == IF o.end = "exit" THEN o.status ELSE SignalExitCode

\* The two "Truncate large outputs" blocks.
Truncate(r) ==
    LET cutOut == Len(r.Stdout) > MaxOutputBytes
        cutErr == Len(r.Stderr) > MaxOutputBytes
    IN  [r EXCEPT
            !.Stdout = IF cutOut THEN SubSeq(@, 1, MaxOutputBytes) \o TruncMarker ELSE @,
            !.Stderr = IF cutErr THEN SubSeq(@, 1, MaxOutputBytes) \o TruncMarker ELSE @,
            !.Truncated = cutOut \/ cutErr]

NoResult == [Stdout |-> <<>>, Stderr |-> <<>>, ExitCode |-> 0, Truncated |-> FALSE]

\* Run without the *exec.ExitError case: every error of cmd.Run() is a failure.
RunFailsOnExitError(o) ==
    LET result == [Stdout |-> Stream(o.stdout), Stderr |-> Stream(o.stderr),
                   ExitCode |-> 0, Truncated |-> FALSE]
    IN  IF o.expired
        THEN [err |-> Nil,
              result |-> [result EXCEPT !.ExitCode = TimeoutSentinel,
                                        !.Stderr = @ \o TimeoutMarker]]
        ELSE IF CmdRun(o) = Nil THEN [err |-> Nil, result |-> Truncate(result)]
        ELSE [err |-> "executing command", result |-> NoResult]

\* Executor.Run: the pair (result, err) it returns.
Run(o) ==
    LET result == [Stdout |-> Stream(o.stdout), Stderr |-> Stream(o.stderr),
                   ExitCode |-> 0, Truncated |-> FALSE]
    IN  IF o.expired
        THEN [err |-> Nil,
              result |-> [result EXCEPT !.ExitCode = TimeoutSentinel,
                                        !.Stderr = @ \o TimeoutMarker]]
        ELSE IF CmdRun(o) = Nil THEN [err |-> Nil, result |-> Truncate(result)]
        ELSE IF CmdRun(o) = "ExitError"
        THEN [err |-> Nil, result |-> Truncate([result EXCEPT !.ExitCode = ExitCode(o)])]
        ELSE [err |-> "executing command", result |-> NoResult]

NoOutcome ==
    [started |-> FALSE, expired |-> FALSE, end |-> "none", status |-> 0,
     stdout |-> 0, stderr |-> 0]

RunIdle == /\ outcome = NoOutcome /\ runResult = [err |-> Nil, result |-> NoResult] /\ rpc = "off"

InitRun ==
    /\ outcome \in Outcomes
    /\ runResult = [err |-> Nil, result |-> NoResult]
    /\ rpc = "call"

CallRun ==
    /\ rpc = "call"
    /\ runResult' = Run(outcome)
    /\ rpc' = "done"
    /\ UNCHANGED <<outcome, botVars, extractVars, auxVars>>

NextRun == CallRun

----------------------------------------------------------------------------
(***************************************************************************)
(* The processes of one Executor.Run (SpecKill).  cmd.Run() starts bash    *)
(* and waits: for bash to end, and then for the goroutines that copy the   *)
(* output pipes into the two builders, which end when every process that   *)
(* holds a write end of the pipes has ended.  When the context's deadline  *)
(* passes, exec.CommandContext kills the process it started.               *)
(***************************************************************************)
MaxChildren == 2
Children == 1..MaxChildren

NoChild == [st |-> "none", pipe |-> FALSE]
NoProcs == [bash |-> "none", spawned |-> [c \in Children |-> NoChild]]

KillIdle == /\ procs = NoProcs /\ ctxDone = FALSE /\ waitResult = 0 /\ kpc = "off"

\* cmd.Run() has started bash -c command and is waiting.
InitKill ==
    /\ procs = [NoProcs EXCEPT !.bash = "running"]
    /\ ctxDone = FALSE
    /\ waitResult = 0
    /\ kpc = "Wait"

Running(p) == p.bash = "running" \/ \E c \in Children : p.spawned[c].st = "running"

\* The processes that keep the output pipes open.
PipeHeld(p) == \E c \in Children : p.spawned[c].st = "running" /\ p.spawned[c].pipe

\* The command starts a process; it inherits the pipes unless its output is
\* redirected.
Fork(c, pipe) ==
    /\ Running(procs)
    /\ procs.spawned[c].st = "none"
    /\ procs' = [procs EXCEPT !.spawned[c] = [st |-> "running", pipe |-> pipe]]
    /\ UNCHANGED <<ctxDone, waitResult, kpc, botVars, extractVars, runVars, fileVars, schedVars, moreVars>>

BashExit ==
    /\ procs.bash = "running"
    /\ procs' = [procs EXCEPT !.bash = "exited"]
    /\ UNCHANGED <<ctxDone, waitResult, kpc, botVars, extractVars, runVars, fileVars, schedVars, moreVars>>

ChildExit(c) ==
    /\ procs.spawned[c].st = "running"
    /\ procs' = [procs EXCEPT !.spawned[c] = [st |-> "exited", pipe |-> FALSE]]
    /\ UNCHANGED <<ctxDone, waitResult, kpc, botVars, extractVars, runVars, fileVars, schedVars, moreVars>>

\* The process exec.CommandContext kills when ctx is done: cmd.Process.
Killed(p) == [p EXCEPT !.bash = IF @ = "running" THEN "killed" ELSE @]

\* context.WithTimeout(..., e.timeout) expires while Run waits.
ctxExpire ==
    /\ kpc = "Wait" /\ ~ctxDone
    /\ ctxDone' = TRUE
    /\ procs' = Killed(procs)
    /\ UNCHANGED <<waitResult, kpc, botVars, extractVars, runVars, fileVars, schedVars, moreVars>>

\* cmd.Run() returns, and Run after it: -1 when ctx.Err() is DeadlineExceeded.
WaitReturns ==
    /\ kpc = "Wait"
    /\ procs.bash # "running" /\ ~PipeHeld(procs)
    /\ waitResult' = IF ctxDone THEN TimeoutSentinel ELSE 0
    /\ kpc' = "done"
    /\ UNCHANGED <<procs, ctxDone, botVars, extractVars, runVars, fileVars, schedVars, moreVars>>

NextKill ==
    \/ \E c \in Children, pipe \in BOOLEAN : Fork(c, pipe)
    \/ BashExit
    \/ \E c \in Children : ChildExit(c)
    \/ ctxExpire
    \/ WaitReturns


----------------------------------------------------------------------------
(***************************************************************************)
(* The bot.  Bot.Start starts one goroutine per inbound message; the       *)
(* goroutines share Bot.pendingCmds and OllamaClient.history, and neither  *)
(* is guarded by a lock.                                                   *)
(***************************************************************************)
MaxTasks == 2
MaxMsgs == 3

AllowedIDs == {1, 2}
Senders == {1, 2, 9}
TaskIds == 1..MaxTasks

Kinds == {"chat", "ask", "yes", "no"}
\* The messages that need no suggestion of the LLM to run something, and the
\* natural-language turn: text, /yes, /exec <cmd>, /run <file>.
CoreKinds == {"chat", "yes", "exec", "run"}

\* What the LLM may answer: prose, one shell block, two shell blocks.
Responses ==
    { <<"ok">>,
      <<"note", NL, Fence, "bash", NL, "ls", NL, Fence, NL>>,
      <<Fence, "bash", NL, "ls", NL, Fence, NL, Fence, "sh", NL, "pwd", NL, Fence, NL>> }

UserText == <<"please", SP, "list">>
ExecText == <<"ls">>
ScriptName == <<"deploy.sh">>

\* The text that follows the command word of a message.
ArgOf(kind) ==
    IF kind \in {"chat", "ask"} THEN UserText
    ELSE IF kind = "exec" THEN ExecText
    ELSE IF kind = "run" THEN ScriptName ELSE <<>>

\* A string read from memory while it was being written.
Garbage == <<"?">>

Suggestions == {Join(ExtractBashCommands(r), <<NL>>) : r \in Responses} \ {<<>>}
CmdStrings == Suggestions \cup {Garbage}

\* The values a Go map[int64]string over the operators can hold.
MapStates == UNION {[D -> CmdStrings] : D \in SUBSET AllowedIDs}

MapStore(m, k, v) == [x \in DOMAIN m \cup {k} |-> IF x = k THEN v ELSE m[x]]
MapDelete(m, k) == [x \in DOMAIN m \ {k} |-> m[x]]

\* The outcomes of a command the bot runs: not started, or exit 0.
BotOutcomes ==
    { [started |-> FALSE, expired |-> FALSE, end |-> "none", status |-> 0,
       stdout |-> 0, stderr |-> 0],
      [started |-> TRUE, expired |-> FALSE, end |-> "exit", status |-> 0,
       stdout |-> 1, stderr |-> 0] }

NoTask ==
    [pc |-> "idle", from |-> 0, kind |-> "none", arg |-> <<>>,
     prompt |-> <<>>, reply |-> <<>>,
     cmd |-> <<>>, slot |-> {}, mut |-> FALSE, rivals |-> {},
     ran |-> <<>>, runErr |-> FALSE, fed |-> 0, said |-> "none"]

BotIdle ==
    /\ autoExecute = FALSE
    /\ pendingCmds = <<>>
    /\ tasks = [t \in TaskIds |-> NoTask]
    /\ nmsgs = 0
    /\ crashed = FALSE

\* NewBot, NewOllamaClient: an empty pending map, an empty history.
InitBot ==
    /\ autoExecute \in BOOLEAN
    /\ pendingCmds = <<>>
    /\ tasks = [t \in TaskIds |-> NoTask]
    /\ nmsgs = 0
    /\ crashed = FALSE

\* The handler has its last reply to send.  What is kept of it: who sent
\* what, the commands it ran, and (of a natural-language turn) the LLM's response.
Finish(task, text) ==
    [NoTask EXCEPT !.pc = "send", !.from = task.from, !.kind = task.kind,
                   !.said = text, !.ran = task.ran, !.runErr = task.runErr,
                   !.fed = task.fed, !.slot = task.slot,
                   !.reply = IF task.kind = "chat" THEN task.reply ELSE <<>>]

\* Bot.sendMessage, for the handler's last reply; the goroutine ends.
sendMessage(t) ==
    /\ ~crashed
    /\ tasks[t].pc = "send"
    /\ tasks' = [tasks EXCEPT ![t] = NoTask]
    /\ UNCHANGED <<autoExecute, pendingCmds, nmsgs, crashed, extractVars, runVars, auxVars>>

\* Bot.Start: go b.handleMessage(update.Message)
Start(t, from, kind, arg) ==
    /\ ~crashed
    /\ nmsgs < MaxMsgs
    /\ tasks[t].pc = "idle"
    /\ \A u \in TaskIds : u < t => tasks[u].pc # "idle"
    /\ tasks' = [tasks EXCEPT ![t] =
                    [NoTask EXCEPT !.pc = "handleMessage", !.from = from,
                                   !.kind = kind, !.arg = arg]]
    /\ nmsgs' = nmsgs + 1
    /\ UNCHANGED <<autoExecute, pendingCmds, crashed, extractVars, runVars, auxVars>>

\* A handler without the auth check.
AuthorizedAll(id) == TRUE

\* b.allowedIDs[msg.From.ID]
Authorized(id) == id \in AllowedIDs

\* Bot.handleMessage: the auth check, then the routing switch.
handleMessage(t) ==
    LET task == tasks[t]
    IN  /\ ~crashed
        /\ task.pc = "handleMessage"
        /\ tasks' = [tasks EXCEPT ![t] =
              IF ~Authorized(task.from) THEN Finish(task, "Unauthorized")
              ELSE IF task.kind \in {"chat", "ask"}
                   THEN [task EXCEPT !.pc = "Post", !.prompt = task.arg]
              ELSE IF task.kind = "yes" THEN [task EXCEPT !.pc = "lookup"]
              ELSE IF task.kind = "exec" THEN [task EXCEPT !.pc = "Run", !.cmd = task.arg]
              ELSE IF task.kind = "run" THEN [task EXCEPT !.pc = "RunScript"]
              ELSE [task EXCEPT !.pc = "delete"]]
        /\ UNCHANGED <<autoExecute, pendingCmds, nmsgs, crashed, extractVars, runVars, auxVars>>

(***************************************************************************)
(* The callers of OllamaClient.Chat, from the point where it returns.      *)
(***************************************************************************)
\* A handler that ignores auto_execute.
GateNeverBypassed == FALSE

\* if b.config.Ollama.AutoExecute
GateBypassed == autoExecute

\* A handleChat that goes on without looking at the error of Chat.
handleChatIgnoringError(task, err) ==
    LET cmds == ExtractBashCommands(task.reply)
        combined == Join(cmds, <<NL>>)
    IN  IF Len(cmds) = 0 THEN Finish(task, "response")
        ELSE IF GateBypassed THEN [task EXCEPT !.pc = "Run", !.cmd = combined]
        ELSE [task EXCEPT !.pc = "store", !.cmd = combined]

\* Bot.handleAsk after Chat returned: the response is sent, nothing else.
handleAsk(task, err) ==
    IF err THEN Finish(task, "Ollama error") ELSE Finish(task, "response")

\* Bot.handleChat after Chat returned.
handleChat(task, err) ==
    IF err THEN Finish(task, "Ollama error")
    ELSE LET cmds == ExtractBashCommands(task.reply)
             combined == Join(cmds, <<NL>>)
         IN  IF Len(cmds) = 0 THEN Finish(task, "response")
             ELSE IF GateBypassed THEN [task EXCEPT !.pc = "Run", !.cmd = combined]
             ELSE [task EXCEPT !.pc = "store", !.cmd = combined]

\* Bot.handleConfirm after the feedback Chat returned: both values are dropped.
handleConfirmFed(task, err) == Finish(task, task.said)

AfterChat(task, err) ==
    IF task.kind = "ask" THEN handleAsk(task, err)
    ELSE IF task.kind = "chat" THEN handleChat(task, err)
    ELSE handleConfirmFed(task, err)

(***************************************************************************)
(* OllamaClient.Chat, as its callers see it: it fails and leaves the       *)
(* history as it was, or it appends the user message and the response to   *)
(* the history and returns the response.                                   *)
(***************************************************************************)
\* The post fails, the status is not 200, or the body does not decode:
\* Chat returns before it touches o.history.
ChatError(t) ==
    /\ ~crashed
    /\ tasks[t].pc = "Post"
    /\ tasks' = [tasks EXCEPT ![t] = AfterChat(tasks[t], TRUE)]
    /\ UNCHANGED <<autoExecute, pendingCmds, nmsgs, crashed, extractVars, runVars, auxVars>>

\* The response arrives: the prompt and the response go into the history.
\* fed counts the prompts that carry the result of a confirmed run.
ChatResponse(t, r) ==
    LET task == tasks[t]
    IN  /\ ~crashed
        /\ task.pc = "Post"
        /\ tasks' = [tasks EXCEPT ![t] =
              AfterChat([task EXCEPT !.reply = r,
                                     !.fed = IF task.kind = "yes" THEN @ + 1 ELSE @],
                        FALSE)]
        /\ UNCHANGED <<autoExecute, pendingCmds, nmsgs, crashed, extractVars, runVars, auxVars>>

\* The user message handleConfirm sends after a run.
Feedback(result) ==
    <<"The command was executed",
      IF result.ExitCode = 0 THEN "Exit code: 0" ELSE "Exit code: not 0">>

\* b.executor.Run(cmd) in handleChat (auto-execute), handleConfirm and
\* handleExec.
ExecutorRun(t, o) ==
    LET task == tasks[t]
        r == Run(o)
        ranIt == [task EXCEPT !.ran = Append(@, task.cmd), !.runErr = (r.err # Nil)]
    IN  /\ ~crashed
        /\ task.pc = "Run"
        /\ tasks' = [tasks EXCEPT ![t] =
              IF r.err # Nil THEN Finish(ranIt, "Error")
              ELSE IF task.kind = "yes"
                   THEN [ranIt EXCEPT !.pc = "Post", !.prompt = Feedback(r.result),
                                      !.said = "result"]
              ELSE Finish(ranIt, "result")]
        /\ UNCHANGED <<autoExecute, pendingCmds, nmsgs, crashed, extractVars, runVars, auxVars>>

\* Bot.handleRunScript: b.executor.RunScript(filename), which fails when
\* the script is not found and runs it otherwise.
handleRunScript(t, found, o) ==
    LET task == tasks[t]
        r == Run(o)
        ranIt == [task EXCEPT !.ran = Append(@, task.arg), !.runErr = (r.err # Nil)]
    IN  /\ ~crashed
        /\ task.pc = "RunScript"
        /\ tasks' = [tasks EXCEPT ![t] =
              IF ~found THEN Finish([task EXCEPT !.runErr = TRUE], "Error")
              ELSE IF r.err # Nil THEN Finish(ranIt, "Error")
              ELSE Finish(ranIt, "result")]
        /\ UNCHANGED <<autoExecute, pendingCmds, nmsgs, crashed, extractVars, runVars, auxVars>>

(***************************************************************************)
(* Bot.pendingCmds.  A map access is not atomic: a task is inside it from  *)
(* mapAccessBegin to the step that ends it.  An access that overlaps a     *)
(* write by another task is a data race (raced): the Go runtime then       *)
(* either ends the process ("concurrent map writes", "concurrent map read  *)
(* and map write") or the access works on a map in an inconsistent state.  *)
(* A write that overlaps nothing but reads completes as written.  A delete *)
(* on an empty map that nobody is writing only reads its count.            *)
(***************************************************************************)
Inside(task) == task.pc \in {"store_in", "lookup_in", "delete_in"}

\* rivals: the senders whose writes the task's access has overlapped.
Raced(task) == task.rivals # {}

InPc(pc) == IF pc = "store" THEN "store_in"
            ELSE IF pc = "lookup" THEN "lookup_in" ELSE "delete_in"

\* The strings id's slot holds: one, or none.
Held(id) == IF id \in DOMAIN pendingCmds THEN {pendingCmds[id]} ELSE {}

\* The strings that stores in progress are writing, for id and for anyone.
Storing(id) == {tasks[u].cmd : u \in {v \in TaskIds : tasks[v].pc = "store_in"
                                                     /\ tasks[v].from = id}}
Written == UNION {Storing(id) : id \in AllowedIDs}

mapAccessBegin(t) ==
    LET task == tasks[t]
        others == {u \in TaskIds \ {t} : Inside(tasks[u])}
        writes == \/ task.pc = "store"
                  \/ /\ task.pc = "delete"
                     /\ DOMAIN pendingCmds # {} \/ \E o \in others : tasks[o].mut
    IN  /\ ~crashed
        /\ task.pc \in {"store", "lookup", "delete"}
        /\ tasks' = [u \in TaskIds |->
              IF u = t THEN [task EXCEPT !.pc = InPc(task.pc), !.mut = writes,
                                         !.rivals = {tasks[o].from : o \in
                                                        {v \in others : tasks[v].mut}},
                                         !.slot = IF task.kind = "no"
                                                  THEN Held(task.from) ELSE @]
              ELSE IF u \in others /\ writes
                   THEN [tasks[u] EXCEPT !.rivals = @ \cup {task.from}]
              ELSE tasks[u]]
        /\ UNCHANGED <<autoExecute, pendingCmds, nmsgs, crashed, extractVars, runVars, auxVars>>

Left(task) == [task EXCEPT !.mut = FALSE, !.rivals = {}]

\* handleChat: b.pendingCmds[msg.From.ID] = combined, then the question.
AfterStore(task) == Finish(Left(task), "Execute these commands?")

\* handleConfirm: cmd, exists := b.pendingCmds[msg.From.ID]
\* slot records what the sender's slot could hold at that moment (for a /no
\* it records what the slot held when the delete began).
AfterLookup(task, cmd, exists, held) ==
    IF ~exists THEN Finish([Left(task) EXCEPT !.slot = held], "Nothing pending")
    ELSE [Left(task) EXCEPT !.pc = "delete", !.cmd = cmd, !.slot = held]

\* delete(b.pendingCmds, msg.From.ID) in handleConfirm and in the /no case.
AfterDelete(task) ==
    IF task.kind = "yes" THEN [Left(task) EXCEPT !.pc = "Run"]
    ELSE Finish(Left(task), "Cancelled")

storeEnd(t) ==
    LET task == tasks[t]
    IN  /\ ~crashed
        /\ task.pc = "store_in" /\ ~Raced(task)
        /\ pendingCmds' = MapStore(pendingCmds, task.from, task.cmd)
        /\ tasks' = [tasks EXCEPT ![t] = AfterStore(task)]
        /\ UNCHANGED <<autoExecute, nmsgs, crashed, extractVars, runVars, auxVars>>

lookupEnd(t) ==
    LET task == tasks[t]
    IN  /\ ~crashed
        /\ task.pc = "lookup_in" /\ ~Raced(task)
        /\ tasks' = [tasks EXCEPT ![t] =
              AfterLookup(task, IF Held(task.from) = {} THEN <<>>
                                ELSE pendingCmds[task.from],
                          Held(task.from) # {}, Held(task.from))]
        /\ UNCHANGED <<autoExecute, pendingCmds, nmsgs, crashed, extractVars, runVars, auxVars>>

deleteEnd(t) ==
    LET task == tasks[t]
    IN  /\ ~crashed
        /\ task.pc = "delete_in" /\ ~Raced(task)
        /\ pendingCmds' = MapDelete(pendingCmds, task.from)
        /\ tasks' = [tasks EXCEPT ![t] = AfterDelete(task)]
        /\ UNCHANGED <<autoExecute, nmsgs, crashed, extractVars, runVars, auxVars>>

\* The runtime detects the concurrent access: fatal error, the process ends
\* and with it the map and every goroutine.
raceFatal(t) ==
    /\ ~crashed
    /\ Inside(tasks[t]) /\ Raced(tasks[t])
    /\ crashed' = TRUE
    /\ pendingCmds' = <<>>
    /\ tasks' = [u \in TaskIds |-> NoTask]
    /\ UNCHANGED <<autoExecute, nmsgs, extractVars, runVars, auxVars>>

\* A lookup that raced with a write finds an entry or none, and in it the
\* string held, a string being written, or a torn one.
raceLookup(t, cmd, exists) ==
    LET task == tasks[t]
    IN  /\ ~crashed
        /\ task.pc = "lookup_in" /\ Raced(task)
        /\ cmd \in Held(task.from) \cup Written \cup {Garbage}
        /\ tasks' = [tasks EXCEPT ![t] =
              AfterLookup(task, IF exists THEN cmd ELSE <<>>, exists,
                          Held(task.from) \cup Storing(task.from))]
        /\ UNCHANGED <<autoExecute, pendingCmds, nmsgs, crashed, extractVars, runVars, auxVars>>

\* A store or delete that raced with a write leaves the map in any state
\* made of the strings held, the strings being written and torn ones.
raceWrite(t, m) ==
    LET task == tasks[t]
    IN  /\ ~crashed
        /\ task.pc \in {"store_in", "delete_in"} /\ Raced(task)
        /\ \A id \in DOMAIN m : m[id] \in Held(id) \cup Written \cup {Garbage}
        /\ pendingCmds' = m
        /\ tasks' = [tasks EXCEPT ![t] =
              IF task.pc = "store_in" THEN AfterStore(task) ELSE AfterDelete(task)]
        /\ UNCHANGED <<autoExecute, nmsgs, crashed, extractVars, runVars, auxVars>>

Next ==
    \/ \E t \in TaskIds, from \in Senders, kind \in Kinds :
            Start(t, from, kind, ArgOf(kind))
    \/ \E t \in TaskIds : handleMessage(t)
    \/ \E t \in TaskIds : ChatError(t)
    \/ \E t \in TaskIds, r \in Responses : ChatResponse(t, r)
    \/ \E t \in TaskIds, o \in BotOutcomes : ExecutorRun(t, o)
    \/ \E t \in TaskIds : mapAccessBegin(t)
    \/ \E t \in TaskIds : storeEnd(t)
    \/ \E t \in TaskIds : lookupEnd(t)
    \/ \E t \in TaskIds : deleteEnd(t)
    \/ \E t \in TaskIds : raceFatal(t)
    \/ \E t \in TaskIds, c \in CmdStrings, e \in BOOLEAN : raceLookup(t, c, e)
    \/ \E t \in TaskIds, m \in MapStates : raceWrite(t, m)
    \/ \E t \in TaskIds : sendMessage(t)

\* The bot with the operators' natural-language turns, accepts and direct
\* executions (SpecCore).
NextCore ==
    \/ \E t \in TaskIds, from \in AllowedIDs, kind \in CoreKinds :
            Start(t, from, kind, ArgOf(kind))
    \/ \E t \in TaskIds : handleMessage(t)
    \/ \E t \in TaskIds : ChatError(t)
    \/ \E t \in TaskIds, r \in Responses : ChatResponse(t, r)
    \/ \E t \in TaskIds, o \in BotOutcomes : ExecutorRun(t, o)
    \/ \E t \in TaskIds, found \in BOOLEAN, o \in BotOutcomes : handleRunScript(t, found, o)
    \/ \E t \in TaskIds : mapAccessBegin(t)
    \/ \E t \in TaskIds : storeEnd(t)
    \/ \E t \in TaskIds : lookupEnd(t)
    \/ \E t \in TaskIds : deleteEnd(t)
    \/ \E t \in TaskIds : raceFatal(t)
    \/ \E t \in TaskIds, c \in CmdStrings, e \in BOOLEAN : raceLookup(t, c, e)
    \/ \E t \in TaskIds, m \in MapStates : raceWrite(t, m)
    \/ \E t \in TaskIds : sendMessage(t)

----------------------------------------------------------------------------
(***************************************************************************)
(* The workspace file operations of the Executor (SpecFiles).  A filename  *)
(* is a slash-separated sequence of components, with or without a leading  *)
(* slash; a path of the file system is the sequence of names from the      *)
(* root.  The workspace is the directory /w.                               *)
(***************************************************************************)
MaxComps == 2

Dot == "."
DotDot == ".."
Names == {"f", "d"}
Comps == Names \cup {Dot, DotDot}
Filenames == [abs : BOOLEAN, comps : UNION {[1..n -> Comps] : n \in 0..MaxComps}]

Root == <<>>
Workspace == <<"w">>

RECURSIVE CleanOnto(_, _)
CleanOnto(path, comps) ==
    IF comps = <<>> THEN path
    ELSE LET c == Head(comps)
             next == IF c = Dot THEN path
                     ELSE IF c = DotDot
                          THEN (IF path = Root THEN Root ELSE SubSeq(path, 1, Len(path) - 1))
                     ELSE Append(path, c)
         IN  CleanOnto(next, Tail(comps))

\* filepath.Join(e.workspace, filename): concatenation, then filepath.Clean.
filepathJoin(dir, name) == CleanOnto(dir, name.comps)

\* filepath.Base(filename): the last element; "." for the empty string and
\* "/" for a string of slashes only.
filepathBase(name) ==
    IF name.comps = <<>> THEN [abs |-> name.abs, comps |-> IF name.abs THEN <<>> ELSE <<Dot>>]
    ELSE [abs |-> FALSE, comps |-> <<name.comps[Len(name.comps)]>>]

\* The file systems a call can meet: the workspace, with or without a file
\* f and a subdirectory d holding a file, and a file f beside the workspace.
FileSystems ==
    { x \in [dirs : {{Root, Workspace}, {Root, Workspace, <<"w", "d">>}},
             files : SUBSET {<<"w", "f">>, <<"f">>, <<"w", "d", "f">>}] :
        <<"w", "d", "f">> \in x.files => <<"w", "d">> \in x.dirs }

IsPrefix(a, b) == Len(a) <= Len(b) /\ SubSeq(b, 1, Len(a)) = a
Under(dir, path) == IsPrefix(dir, path) /\ path # dir

Exists(fs, path) == path \in fs.files \cup fs.dirs
Empty(fs, dir) == ~\E q \in fs.files \cup fs.dirs : Under(dir, q)

NoPath == <<"none">>
NoFileResult == [err |-> Nil, path |-> NoPath, ran |-> NoPath]

FilesIdle ==
    /\ fsys = [dirs |-> {Root, Workspace}, files |-> {}]
    /\ fname = [abs |-> FALSE, comps |-> <<>>]
    /\ fop = "none" /\ fresult = NoFileResult /\ fpc = "off"

InitFiles ==
    /\ fsys \in FileSystems
    /\ fname \in Filenames
    /\ fop = "none" /\ fresult = NoFileResult /\ fpc = "call"

Parent(path) == IF path = Root THEN Root ELSE SubSeq(path, 1, Len(path) - 1)

\* os.WriteFile(path, content, 0644)
osWriteFile(fs, path) ==
    IF path \in fs.dirs \/ Parent(path) \notin fs.dirs THEN [err |-> "error", fs |-> fs]
    ELSE [err |-> Nil, fs |-> [fs EXCEPT !.files = @ \cup {path}]]

\* os.Remove(path): a file, or a directory that is empty.
osRemove(fs, path) ==
    IF path \in fs.files THEN [err |-> Nil, fs |-> [fs EXCEPT !.files = @ \ {path}]]
    ELSE IF path \in fs.dirs /\ Empty(fs, path) /\ path # Root
         THEN [err |-> Nil, fs |-> [fs EXCEPT !.dirs = @ \ {path}]]
    ELSE [err |-> "error", fs |-> fs]

\* Executor.SaveFile
SaveFile ==
    LET path == filepathJoin(Workspace, filepathBase(fname))
        w == osWriteFile(fsys, path)
    IN  /\ fpc = "call"
        /\ fop' = "SaveFile" /\ fpc' = "done"
        /\ fsys' = w.fs
        /\ fresult' = [err |-> w.err, path |-> IF w.err = Nil THEN path ELSE NoPath,
                       ran |-> NoPath]
        /\ UNCHANGED <<fname, botVars, extractVars, runVars, killVars, schedVars, moreVars>>

\* Executor.ReadFile
ReadFile ==
    LET path == filepathJoin(Workspace, filepathBase(fname))
        ok == path \in fsys.files
    IN  /\ fpc = "call"
        /\ fop' = "ReadFile" /\ fpc' = "done"
        /\ fresult' = [err |-> IF ok THEN Nil ELSE "reading file",
                       path |-> IF ok THEN path ELSE NoPath, ran |-> NoPath]
        /\ UNCHANGED <<fsys, fname, botVars, extractVars, runVars, killVars, schedVars, moreVars>>

\* Executor.DeleteFile
DeleteFile ==
    LET path == filepathJoin(Workspace, filepathBase(fname))
        r == osRemove(fsys, path)
    IN  /\ fpc = "call"
        /\ fop' = "DeleteFile" /\ fpc' = "done"
        /\ fsys' = r.fs
        /\ fresult' = [err |-> r.err, path |-> IF r.err = Nil THEN path ELSE NoPath,
                       ran |-> NoPath]
        /\ UNCHANGED <<fname, botVars, extractVars, runVars, killVars, schedVars, moreVars>>

\* Executor.RunScript: os.Stat, then e.Run(interpreter + " " + path).
RunScript ==
    LET path == filepathJoin(Workspace, fname)
        found == Exists(fsys, path)
    IN  /\ fpc = "call"
        /\ fop' = "RunScript" /\ fpc' = "done"
        /\ fresult' = [err |-> IF found THEN Nil ELSE "script not found",
                       path |-> NoPath, ran |-> IF found THEN path ELSE NoPath]
        /\ UNCHANGED <<fsys, fname, botVars, extractVars, runVars, killVars, schedVars, moreVars>>

NextFiles == SaveFile \/ ReadFile \/ DeleteFile \/ RunScript

----------------------------------------------------------------------------
(***************************************************************************)
(* The Scheduler (SpecSched).  Add, Remove and the end of runJob hold      *)
(* Scheduler.mu from their first statement to their return; the model      *)
(* takes them in two steps, the second being s.persist() and the return.   *)
(* A *CronJob is identified by the EntryID cron gave it: a run in flight   *)
(* keeps its job although the table may have dropped or replaced it.       *)
(***************************************************************************)
MaxCalls == 3
MaxTime == 3
MaxRuns == 2
MaxEntries == 3

ZeroTime == 0

Ids == {"backup", "sync"}
ValidSpecs == {"@daily", "@every 5m"}

\* What a caller asks Add to schedule.
Requests ==
    { [spec |-> "@daily", command |-> "echo hi", label |-> "Daily Backup"],
      [spec |-> "@every 5m", command |-> "echo bye", label |-> "Sync"],
      [spec |-> "bad", command |-> "echo hi", label |-> "Broken"] }

\* A parser that accepts every spec.
ParsesAnything(spec) == TRUE

\* cron's parser (cron.WithSeconds) accepts the spec.
Parses(spec) == spec \in ValidSpecs

\* persistFile: whether it exists, and the job objects in it by key.
NoFile == [exists |-> FALSE, jobs |-> <<>>]

\* A CronJob whose last_run is left out of the JSON object.
PersistedWithoutLastRun(job) ==
    [ID |-> job.ID, Spec |-> job.Spec, Command |-> job.Command, Label |-> job.Label,
     Created |-> job.Created, LastRun |-> ZeroTime]

\* The JSON object of a CronJob: EntryID is tagged json:"-".
Persisted(job) ==
    [ID |-> job.ID, Spec |-> job.Spec, Command |-> job.Command, Label |-> job.Label,
     Created |-> job.Created, LastRun |-> job.LastRun]

\* json.MarshalIndent(s.jobs, "", "  ")
Marshal(table) == [id \in DOMAIN table |-> Persisted(table[id])]

\* A file left by an earlier version: its one job has a spec that no longer parses.
StaleFile ==
    [exists |-> TRUE,
     jobs |-> [id \in {"sync"} |->
        [ID |-> "sync", Spec |-> "bad", Command |-> "echo hi", Label |-> "Broken",
         Created |-> ZeroTime, LastRun |-> ZeroTime]]]

\* A file with one job whose spec parses and one whose spec does not.
MixedFile ==
    [exists |-> TRUE,
     jobs |-> [id \in Ids |->
        IF id = "backup"
        THEN [ID |-> "backup", Spec |-> "@daily", Command |-> "echo hi",
              Label |-> "Daily Backup", Created |-> ZeroTime, LastRun |-> ZeroTime]
        ELSE StaleFile.jobs["sync"]]]

PersistFiles == {NoFile, MixedFile}

\* What the func() of a cron entry holds of its job: s.runJob(job).
Closure(job) == [id |-> job.ID, command |-> job.Command, label |-> job.Label]

\* The orders in which a range over a map can visit the keys K.
Orders(K) ==
    {o \in [1..Cardinality(K) -> K] : \A i, j \in 1..Cardinality(K) : o[i] = o[j] => i = j}

\* Scheduler.load on a new Scheduler: every job of the file whose spec parses
\* gets the next EntryID of the new cron instance and a table entry under
\* its own ID; the others are skipped.
LoadIn(f, o) ==
    LET n == Len(o)
        ids == {f[o[i]].ID : i \in 1..n}
        last(id) == CHOOSE i \in 1..n :
                        /\ f[o[i]].ID = id
                        /\ \A j \in 1..n : f[o[j]].ID = id => j <= i
    IN  [jobs |-> [id \in ids |->
                     LET rec == f[o[last(id)]]
                     IN  [ID |-> rec.ID, Spec |-> rec.Spec, Command |-> rec.Command,
                          Label |-> rec.Label, Created |-> rec.Created,
                          LastRun |-> rec.LastRun, EntryID |-> last(id)]],
         timers |-> [e \in 1..n |-> Closure(f[o[e]])],
         nextEntry |-> n]

\* A load that registers every job of the file.
LoadsUnparsed(f) ==
    IF ~f.exists THEN { [jobs |-> <<>>, timers |-> <<>>, nextEntry |-> 0] }
    ELSE {LoadIn(f.jobs, o) : o \in Orders(DOMAIN f.jobs)}

\* os.ReadFile fails on a missing file and load returns.
Loads(f) ==
    IF ~f.exists THEN { [jobs |-> <<>>, timers |-> <<>>, nextEntry |-> 0] }
    ELSE {LoadIn(f.jobs, o) : o \in Orders({k \in DOMAIN f.jobs : Parses(f.jobs[k].Spec)})}

RunIds == 1..MaxRuns
\* Scheduler.mu unlocked.
Free == [op |-> "free", id |-> "none", run |-> 0]
NoCall == [op |-> "none", id |-> "none", spec |-> "none", command |-> "none", label |-> "none"]
NoRet == [op |-> "none", id |-> "none", err |-> Nil]
\* Nobody holds a list.
NoList == [pc |-> "idle", snap |-> {}, written |-> {}]
\* No message for notifyFn.
NoMsg == [id |-> "none", label |-> "none", err |-> Nil]
NoRun ==
    [pc |-> "idle", entry |-> 0, id |-> "none", command |-> "none", label |-> "none",
     err |-> Nil, msg |-> NoMsg]

SchedIdle ==
    /\ jobs = <<>> /\ timers = <<>> /\ nextEntry = 0 /\ file = NoFile
    /\ mu = Free /\ runs = [r \in RunIds |-> NoRun] /\ now = 0
    /\ call = NoCall /\ ncalls = 0 /\ ret = NoRet
    /\ lister = NoList

\* NewScheduler: an empty table, a new cron instance, then s.load().
InitSched ==
    /\ file \in PersistFiles
    /\ \E l \in Loads(file) :
          jobs = l.jobs /\ timers = l.timers /\ nextEntry = l.nextEntry
    /\ mu = Free /\ runs = [r \in RunIds |-> NoRun] /\ now = 1
    /\ call = NoCall /\ ncalls = 0 /\ ret = NoRet
    /\ lister = NoList

\* An Add that never finds the id.
NeverDuplicate(id) == FALSE

\* _, exists := s.jobs[id]
Duplicate(id) == id \in DOMAIN jobs

\* Scheduler.Add, up to s.persist().
Add(id, q) ==
    /\ mu = Free /\ ncalls < MaxCalls
    /\ call' = [op |-> "Add", id |-> id, spec |-> q.spec, command |-> q.command,
                label |-> q.label]
    /\ ncalls' = ncalls + 1
    /\ IF Duplicate(id)
       THEN /\ ret' = [op |-> "Add", id |-> id, err |-> "already exists"]
            /\ UNCHANGED <<jobs, timers, nextEntry, mu, now>>
       ELSE IF ~Parses(q.spec)
       THEN /\ ret' = [op |-> "Add", id |-> id, err |-> "invalid cron spec"]
            /\ UNCHANGED <<jobs, timers, nextEntry, mu, now>>
       ELSE LET e == nextEntry + 1
                job == [ID |-> id, Spec |-> q.spec, Command |-> q.command,
                        Label |-> q.label, Created |-> now, LastRun |-> ZeroTime,
                        EntryID |-> e]
            IN  /\ e <= MaxEntries /\ now < MaxTime
                /\ timers' = [x \in DOMAIN timers \cup {e} |->
                                IF x = e THEN Closure(job) ELSE timers[x]]
                /\ nextEntry' = e
                /\ jobs' = [x \in DOMAIN jobs \cup {id} |-> IF x = id THEN job ELSE jobs[x]]
                /\ mu' = [op |-> "Add", id |-> id, run |-> 0]
                /\ now' = now + 1
                /\ ret' = ret
    /\ UNCHANGED <<file, runs, lister,
                   botVars, extractVars, runVars, killVars, fileVars, moreVars>>

\* A Remove that leaves the cron entry registered.
RemoveKeepingTimer(id) ==
    /\ mu = Free /\ ncalls < MaxCalls
    /\ call' = [NoCall EXCEPT !.op = "Remove", !.id = id]
    /\ ncalls' = ncalls + 1
    /\ IF id \notin DOMAIN jobs
       THEN /\ ret' = [op |-> "Remove", id |-> id, err |-> "not found"]
            /\ UNCHANGED <<jobs, mu>>
       ELSE /\ jobs' = [x \in DOMAIN jobs \ {id} |-> jobs[x]]
            /\ mu' = [op |-> "Remove", id |-> id, run |-> 0]
            /\ ret' = ret
    /\ UNCHANGED <<timers, nextEntry, file, runs, now, lister,
                   botVars, extractVars, runVars, killVars, fileVars, moreVars>>

\* Scheduler.Remove, up to s.persist().
Remove(id) ==
    /\ mu = Free /\ ncalls < MaxCalls
    /\ call' = [NoCall EXCEPT !.op = "Remove", !.id = id]
    /\ ncalls' = ncalls + 1
    /\ IF id \notin DOMAIN jobs
       THEN /\ ret' = [op |-> "Remove", id |-> id, err |-> "not found"]
            /\ UNCHANGED <<jobs, timers, mu>>
       ELSE /\ timers' = [x \in DOMAIN timers \ {jobs[id].EntryID} |-> timers[x]]
            /\ jobs' = [x \in DOMAIN jobs \ {id} |-> jobs[x]]
            /\ mu' = [op |-> "Remove", id |-> id, run |-> 0]
            /\ ret' = ret
    /\ UNCHANGED <<nextEntry, file, runs, now, lister,
                   botVars, extractVars, runVars, killVars, fileVars, moreVars>>

\* Scheduler.persist, then the unlock and the return of the operation that
\* called it.  The error of os.WriteFile is dropped: ok tells whether the
\* file was written.  A run goes on to make its message, of the job's id
\* and label and of the error of Run or the formatted result.
persist(ok) ==
    /\ mu # Free
    /\ file' = IF ok THEN [exists |-> TRUE, jobs |-> Marshal(jobs)] ELSE file
    /\ mu' = Free
    /\ ret' = [op |-> mu.op, id |-> mu.id, err |-> Nil]
    /\ runs' = IF mu.op = "runJob"
               THEN [runs EXCEPT ![mu.run].pc = "notify",
                                 ![mu.run].msg = [id |-> runs[mu.run].id,
                                                  label |-> runs[mu.run].label,
                                                  err |-> runs[mu.run].err]]
               ELSE runs
    /\ UNCHANGED <<jobs, timers, nextEntry, now, call, ncalls, lister,
                   botVars, extractVars, runVars, killVars, fileVars, moreVars>>

\* A runJob that takes the lock before it runs the command.
TriggerHoldingLock(e, r) ==
    /\ e \in DOMAIN timers /\ mu = Free
    /\ runs[r].pc = "idle" /\ \A u \in RunIds : u < r => runs[u].pc # "idle"
    /\ runs' = [runs EXCEPT ![r] = [pc |-> "Run", entry |-> e, id |-> timers[e].id,
                                    command |-> timers[e].command,
                                    label |-> timers[e].label, err |-> Nil,
                                    msg |-> NoMsg]]
    /\ mu' = [op |-> "runJob", id |-> timers[e].id, run |-> r]
    /\ UNCHANGED <<jobs, timers, nextEntry, file, now, call, ncalls, ret, lister,
                   botVars, extractVars, runVars, killVars, fileVars, moreVars>>

\* A cron that skips a firing while a run of the entry is in flight.
TriggerUnlessRunning(e, r) ==
    /\ e \in DOMAIN timers
    /\ \A u \in RunIds : runs[u].pc = "idle" \/ runs[u].entry # e
    /\ runs[r].pc = "idle" /\ \A u \in RunIds : u < r => runs[u].pc # "idle"
    /\ runs' = [runs EXCEPT ![r] = [pc |-> "Run", entry |-> e, id |-> timers[e].id,
                                    command |-> timers[e].command,
                                    label |-> timers[e].label, err |-> Nil,
                                    msg |-> NoMsg]]
    /\ UNCHANGED <<jobs, timers, nextEntry, file, mu, now, call, ncalls, ret, lister,
                   botVars, extractVars, runVars, killVars, fileVars, moreVars>>

\* A cron entry fires: go s.runJob(job).
Trigger(e, r) ==
    /\ e \in DOMAIN timers
    /\ runs[r].pc = "idle" /\ \A u \in RunIds : u < r => runs[u].pc # "idle"
    /\ runs' = [runs EXCEPT ![r] = [pc |-> "Run", entry |-> e, id |-> timers[e].id,
                                    command |-> timers[e].command,
                                    label |-> timers[e].label, err |-> Nil,
                                    msg |-> NoMsg]]
    /\ UNCHANGED <<jobs, timers, nextEntry, file, mu, now, call, ncalls, ret, lister,
                   botVars, extractVars, runVars, killVars, fileVars, moreVars>>

\* runJob: s.executor.Run(job.Command) returns.
runJobRun(r, err) ==
    /\ runs[r].pc = "Run"
    /\ runs' = [runs EXCEPT ![r].pc = "Lock", ![r].err = err]
    /\ UNCHANGED <<jobs, timers, nextEntry, file, mu, now, call, ncalls, ret, lister,
                   botVars, extractVars, runVars, killVars, fileVars, moreVars>>

\* A runJob that looks its job up in the table by id before it writes.
runJobLockById(r) ==
    /\ runs[r].pc = "Lock" /\ mu = Free /\ now < MaxTime
    /\ jobs' = [id \in DOMAIN jobs |->
                  IF id = runs[r].id
                  THEN [jobs[id] EXCEPT !.LastRun = now] ELSE jobs[id]]
    /\ now' = now + 1
    /\ mu' = [op |-> "runJob", id |-> runs[r].id, run |-> r]
    /\ runs' = [runs EXCEPT ![r].pc = "persist"]
    /\ lister' = IF runs[r].entry \in lister.snap
                  THEN [lister EXCEPT !.written = @ \cup {runs[r].entry}]
                  ELSE lister
    /\ UNCHANGED <<timers, nextEntry, file, call, ncalls, ret,
                   botVars, extractVars, runVars, killVars, fileVars, moreVars>>

\* runJob: s.mu.Lock(); job.LastRun = time.Now().  The job is the one the
\* entry was registered for, in the table or not.
runJobLock(r) ==
    /\ runs[r].pc = "Lock" /\ mu = Free /\ now < MaxTime
    /\ jobs' = [id \in DOMAIN jobs |->
                  IF jobs[id].EntryID = runs[r].entry
                  THEN [jobs[id] EXCEPT !.LastRun = now] ELSE jobs[id]]
    /\ now' = now + 1
    /\ mu' = [op |-> "runJob", id |-> runs[r].id, run |-> r]
    /\ runs' = [runs EXCEPT ![r].pc = "persist"]
    /\ lister' = IF runs[r].entry \in lister.snap
                  THEN [lister EXCEPT !.written = @ \cup {runs[r].entry}]
                  ELSE lister
    /\ UNCHANGED <<timers, nextEntry, file, call, ncalls, ret,
                   botVars, extractVars, runVars, killVars, fileVars, moreVars>>

\* runJob: s.notifyFn(msg); the goroutine ends.
runJobNotify(r) ==
    /\ runs[r].pc = "notify"
    /\ runs' = [runs EXCEPT ![r] = NoRun]
    /\ UNCHANGED <<jobs, timers, nextEntry, file, mu, now, call, ncalls, ret, lister,
                   botVars, extractVars, runVars, killVars, fileVars, moreVars>>

\* Scheduler.List: under the read lock, the pointers of the table's jobs.
\* snap is what the caller can reach through them: the job objects
\* themselves, shared with the table and with the runs in flight.  written
\* are those whose LastRun a run has written since List returned.
List ==
    /\ mu = Free /\ ncalls < MaxCalls /\ lister.pc = "idle"
    /\ call' = [NoCall EXCEPT !.op = "List"]
    /\ ncalls' = ncalls + 1
    /\ ret' = [op |-> "List", id |-> "none", err |-> Nil]
    /\ lister' = [pc |-> "format", snap |-> {jobs[id].EntryID : id \in DOMAIN jobs},
                  written |-> {}]
    /\ UNCHANGED <<jobs, timers, nextEntry, file, mu, runs, now,
                   botVars, extractVars, runVars, killVars, fileVars, moreVars>>

\* FormatJobList(jobs) in the caller of List, with no lock held, and the
\* reply.  A LastRun that a run wrote since List returned was read without
\* synchronisation: the text shows the time before the write, the time
\* after it, or (torn) a time made of parts of both.
FormatJobList(torn) ==
    /\ lister.pc = "format"
    /\ torn => lister.written # {}
    /\ lister' = NoList
    /\ ret' = [op |-> "FormatJobList", id |-> "none", err |-> IF torn THEN "torn" ELSE Nil]
    /\ UNCHANGED <<jobs, timers, nextEntry, file, mu, runs, now, call, ncalls,
                   botVars, extractVars, runVars, killVars, fileVars, moreVars>>

\* The program is started again: NewScheduler on the file as it is.
Restart ==
    /\ mu = Free /\ ncalls < MaxCalls
    /\ \E l \in Loads(file) :
          jobs' = l.jobs /\ timers' = l.timers /\ nextEntry' = l.nextEntry
    /\ runs' = [r \in RunIds |-> NoRun]
    /\ call' = [NoCall EXCEPT !.op = "NewScheduler"]
    /\ ncalls' = ncalls + 1
    /\ ret' = [op |-> "NewScheduler", id |-> "none", err |-> Nil]
    /\ lister' = NoList
    /\ UNCHANGED <<file, mu, now, botVars, extractVars, runVars, killVars, fileVars, moreVars>>

NextSched ==
    \/ \E id \in Ids, q \in Requests : Add(id, q)
    \/ \E id \in Ids : Remove(id)
    \/ \E ok \in BOOLEAN : persist(ok)
    \/ \E e \in 1..MaxEntries, r \in RunIds : Trigger(e, r)
    \/ \E r \in RunIds, err \in {Nil, "error"} : runJobRun(r, err)
    \/ \E r \in RunIds : runJobLock(r)
    \/ \E r \in RunIds : runJobNotify(r)
    \/ Restart

\* The Scheduler with a caller of List (handleCron) beside the other callers.
NextList ==
    \/ \E id \in Ids, q \in Requests : Add(id, q)
    \/ \E id \in Ids : Remove(id)
    \/ \E ok \in BOOLEAN : persist(ok)
    \/ \E e \in 1..MaxEntries, r \in RunIds : Trigger(e, r)
    \/ \E r \in RunIds, err \in {Nil, "error"} : runJobRun(r, err)
    \/ \E r \in RunIds : runJobLock(r)
    \/ \E r \in RunIds : runJobNotify(r)
    \/ List
    \/ \E torn \in BOOLEAN : FormatJobList(torn)

(***************************************************************************)
(* The /cron messages (SpecCron).  Bot.handleMessage routes a text that    *)
(* starts with "/cron" to Bot.handleCron with the rest of it.  A word of a *)
(* text is one token: a token that is not white space stands for a maximal *)
(* run of characters that are not white space.                             *)
(***************************************************************************)
MaxCronMsgs == 3

Bar == "|"
CronPrefix == "/cron"
CronIds == {"backup", "sync"}
CronCommand == <<"echo", SP, "hi">>

\* strings.HasPrefix, strings.TrimPrefix
HasPrefix(s, prefix) == Len(prefix) <= Len(s) /\ SubSeq(s, 1, Len(prefix)) = prefix
TrimPrefix(s, prefix) == IF HasPrefix(s, prefix) THEN SubSeq(s, Len(prefix) + 1, Len(s)) ELSE s

\* strings.Fields: the words of s.
Fields(s) == SelectSeq(s, LAMBDA tok : ~IsSpace(tok))

\* strings.Join(words, " ")
JoinWords(words) == Join([i \in 1..Len(words) |-> <<words[i]>>], <<SP>>)

\* strings.SplitN(s, sep, 2)
SplitN2(s, sep) ==
    LET at == {i \in 1..Len(s) : HasPrefix(SubSeq(s, i, Len(s)), sep)}
    IN  IF at = {} THEN <<s>>
        ELSE LET i == CHOOSE x \in at : \A y \in at : x <= y
             IN  <<SubSeq(s, 1, i - 1), SubSeq(s, i + Len(sep), Len(s))>>

\* The schedules of the help text: two descriptors and a six-field expression.
Daily == <<"@daily">>
Every5m == <<"@every", SP, "5m">>
SixFields == <<"0", SP, "*/5", SP, "*", SP, "*", SP, "*", SP, "*">>
CronSpecs == {Daily, Every5m, SixFields}
CronLabels == { <<>>, <<"Sync">>, <<"Daily", "Backup">> }

\* strings.HasPrefix(word, "@")
StartsWithAt(word) == word \in {"@daily", "@every", "@hourly"}

\* The parser of cron.New(cron.WithSeconds()): a descriptor it knows, or
\* exactly six fields.
CronParses(spec) ==
    IF Len(spec) > 0 /\ StartsWithAt(spec[1])
    THEN spec \in {Daily, Every5m}
    ELSE Len(Fields(spec)) = 6 /\ \A i \in 1..Len(spec) : spec[i] \in {"0", "*", "*/5", SP}

\* What an operator asks for, and the message the help text tells them to
\* send for it:
\*     /cron add <id> <spec> <label> | <command>     /cron list     /cron rm <id>
CronRequests ==
    [op : {"add"}, id : CronIds, spec : CronSpecs, label : CronLabels]
        \cup [op : {"rm"}, id : CronIds, spec : {<<>>}, label : {<<>>}]
        \cup [op : {"list", "none"}, id : {"none"}, spec : {<<>>}, label : {<<>>}]

CronText(req) ==
    IF req.op = "none" THEN <<CronPrefix>>
    ELSE IF req.op = "list" THEN <<CronPrefix, SP, "list">>
    ELSE IF req.op = "rm" THEN <<CronPrefix, SP, "rm", SP, req.id>>
    ELSE <<CronPrefix, SP, "add", SP, req.id, SP>> \o req.spec
            \o (IF req.label = <<>> THEN <<>> ELSE <<SP>> \o JoinWords(req.label))
            \o <<SP, Bar, SP>> \o CronCommand

NoCronCall == [op |-> "none", id |-> "none", spec |-> <<>>, command |-> <<>>, label |-> <<>>]
NoCronMsg == [req |-> [op |-> "none", id |-> "none", spec |-> <<>>, label |-> <<>>],
              text |-> <<>>]

CronIdle ==
    /\ cmsg = NoCronMsg /\ cpc = "off" /\ creply = "none" /\ ccall = NoCronCall
    /\ cjobs = <<>> /\ cn = 0

InitCron ==
    /\ cmsg = NoCronMsg /\ cpc = "idle" /\ creply = "none" /\ ccall = NoCronCall
    /\ cjobs = <<>> /\ cn = 0

\* Bot.handleMessage: text := strings.TrimSpace(msg.Text); the text has the
\* prefix "/cron" and goes to handleCron.
cronMessage(req) ==
    /\ cpc = "idle" /\ cn < MaxCronMsgs
    /\ cmsg' = [req |-> req, text |-> TrimSpace(CronText(req))]
    /\ HasPrefix(cmsg'.text, <<CronPrefix>>)
    /\ cpc' = "handleCron"
    /\ cn' = cn + 1
    /\ creply' = "none" /\ ccall' = NoCronCall
    /\ UNCHANGED <<cjobs, botVars, extractVars, runVars, killVars, fileVars, schedVars,
                   splitVars, chatVars>>

\* handleCron, the add case: the header split into id, spec and label.
SplitHeader(header) ==
    LET id == header[1]
    IN  IF StartsWithAt(header[2])
        THEN [ok |-> TRUE, id |-> id, spec |-> <<header[2]>>,
              label |-> IF Len(header) > 2 THEN JoinWords(SubSeq(header, 3, Len(header)))
                        ELSE <<id>>]
        ELSE IF Len(header) >= 7
        THEN [ok |-> TRUE, id |-> id, spec |-> JoinWords(SubSeq(header, 2, 7)),
              label |-> IF Len(header) > 7 THEN JoinWords(SubSeq(header, 8, Len(header)))
                        ELSE <<id>>]
        ELSE IF Len(header) >= 6
        THEN [ok |-> TRUE, id |-> id, spec |-> JoinWords(SubSeq(header, 2, 6)),
              label |-> <<id>>]
        ELSE [ok |-> FALSE, id |-> id, spec |-> <<>>, label |-> <<>>]

\* Scheduler.Add and Scheduler.Remove as handleCron sees them: the error
\* returned and the table afterwards.
schedulerAdd(table, id, spec, command, label) ==
    IF id \in DOMAIN table \/ ~CronParses(spec) THEN [err |-> TRUE, jobs |-> table]
    ELSE [err |-> FALSE,
          jobs |-> [x \in DOMAIN table \cup {id} |->
                      IF x = id THEN [spec |-> spec, command |-> command, label |-> label]
                      ELSE table[x]]]

schedulerRemove(table, id) ==
    IF id \notin DOMAIN table THEN [err |-> TRUE, jobs |-> table]
    ELSE [err |-> FALSE, jobs |-> [x \in DOMAIN table \ {id} |-> table[x]]]

\* handleCron, the add case.
cronAdd(args) ==
    LET rest == TrimPrefix(args, <<SP, "add", SP>>)
        parts == SplitN2(rest, <<SP, Bar, SP>>)
    IN  IF Len(parts) # 2
        THEN [reply |-> "usage", call |-> NoCronCall, jobs |-> cjobs]
        ELSE LET header == Fields(parts[1])
                 command == TrimSpace(parts[2])
             IN  IF Len(header) < 2
                 THEN [reply |-> "need id and spec", call |-> NoCronCall, jobs |-> cjobs]
                 ELSE LET h == SplitHeader(header)
                          r == schedulerAdd(cjobs, h.id, h.spec, command, h.label)
                      IN  IF ~h.ok
                          THEN [reply |-> "invalid cron spec", call |-> NoCronCall,
                                jobs |-> cjobs]
                          ELSE [reply |-> IF r.err THEN "error" ELSE "created",
                                call |-> [op |-> "Add", id |-> h.id, spec |-> h.spec,
                                          command |-> command, label |-> h.label],
                                jobs |-> r.jobs]

\* handleCron, the rm case.
cronRm(args) ==
    LET id == TrimSpace(TrimPrefix(args, <<SP, "rm", SP>>))
        r == schedulerRemove(cjobs, id)
    IN  [reply |-> IF r.err THEN "error" ELSE "removed",
         call |-> [NoCronCall EXCEPT !.op = "Remove", !.id = id],
         jobs |-> r.jobs]

\* Bot.handleCron(msg, strings.TrimPrefix(text, "/cron"))
handleCron ==
    LET args == TrimSpace(TrimPrefix(cmsg.text, <<CronPrefix>>))
        done == IF args = <<>> \/ args = <<SP, "list">>
                THEN [reply |-> "job list", call |-> [NoCronCall EXCEPT !.op = "List"],
                      jobs |-> cjobs]
                ELSE IF HasPrefix(args, <<SP, "add", SP>>) THEN cronAdd(args)
                ELSE IF HasPrefix(args, <<SP, "rm", SP>>) THEN cronRm(args)
                ELSE [reply |-> "unknown cron command", call |-> NoCronCall, jobs |-> cjobs]
    IN  /\ cpc = "handleCron"
        /\ creply' = done.reply /\ ccall' = done.call /\ cjobs' = done.jobs
        /\ cpc' = "idle"
        /\ UNCHANGED <<cmsg, cn, botVars, extractVars, runVars, killVars, fileVars, schedVars,
                   splitVars, chatVars>>

NextCron ==
    \/ \E req \in CronRequests : cronMessage(req)
    \/ handleCron

----------------------------------------------------------------------------
(***************************************************************************)
(* Bot.sendMessage and splitMessage (SpecSplit).  A text is a sequence of  *)
(* bytes, of which the model tells the newline from the others.            *)
(***************************************************************************)
MaxText == 6
MaxChunk == 4
MaxChunks == 7

Bytes == {"a", NL}
Texts == UNION {[1..n -> Bytes] : n \in 0..MaxText}

\* strings.LastIndex(s, sep) for a one-byte sep: the index, from 0, of the
\* last sep in s, or -1.
LastIndex(s, sep) ==
    LET at == {i \in 1..Len(s) : s[i] = sep}
    IN  IF at = {} THEN -1 ELSE (CHOOSE i \in at : \A j \in at : j <= i) - 1

\* text[:n] and text[n:]
Upto(s, n) == SubSeq(s, 1, n)
From(s, n) == SubSeq(s, n + 1, Len(s))

\* A split that falls back on maxLen only when the text has no newline.
SplitIndexAtAnyNewline(s, m) ==
    LET idx == LastIndex(Upto(s, m), NL)
    IN  IF idx < 0 THEN m ELSE idx

\* splitMessage: idx := strings.LastIndex(text[:maxLen], "\n");
\* if idx < maxLen/2 { idx = maxLen }
SplitIndex(s, m) ==
    LET idx == LastIndex(Upto(s, m), NL)
    IN  IF idx < m \div 2 THEN m ELSE idx

SplitIdle ==
    /\ msgText = <<>> /\ maxLen = 0 /\ remaining = <<>> /\ chunks = <<>>
    /\ sentChunks = <<>> /\ spc = "idle"

\* sendMessage(chatID, text) has called splitMessage(text, maxLen).
InitSplit ==
    /\ msgText \in Texts /\ maxLen \in 1..MaxChunk
    /\ remaining = msgText /\ chunks = <<>> /\ sentChunks = <<>>
    /\ spc = "splitMessage"

\* splitMessage: if len(text) <= maxLen { return []string{text} }
splitMessage ==
    /\ spc = "splitMessage"
    /\ IF Len(remaining) <= maxLen
       THEN chunks' = <<remaining>> /\ spc' = "Send"
       ELSE chunks' = chunks /\ spc' = "loop"
    /\ UNCHANGED <<msgText, maxLen, remaining, sentChunks,
                   botVars, extractVars, runVars, killVars, fileVars, schedVars,
                   cronVars, chatVars>>

\* One turn of the loop: for len(text) > 0 { ... }
splitLoop ==
    /\ spc = "loop" /\ Len(chunks) < MaxChunks
    /\ IF Len(remaining) = 0
       THEN chunks' = chunks /\ remaining' = remaining /\ spc' = "Send"
       ELSE IF Len(remaining) <= maxLen
       THEN chunks' = Append(chunks, remaining) /\ remaining' = remaining /\ spc' = "Send"
       ELSE LET idx == SplitIndex(remaining, maxLen)
            IN  /\ chunks' = Append(chunks, Upto(remaining, idx))
                /\ remaining' = From(remaining, idx)
                /\ spc' = "loop"
    /\ UNCHANGED <<msgText, maxLen, sentChunks,
                   botVars, extractVars, runVars, killVars, fileVars, schedVars,
                   cronVars, chatVars>>

\* sendMessage: for _, chunk := range chunks: b.api.Send(m), and once more
\* without the parse mode if that failed; the second error is dropped.
apiSend(ok, retry) ==
    /\ spc = "Send"
    /\ IF Len(sentChunks) < Len(chunks)
       THEN /\ sentChunks' = Append(sentChunks,
                    [chunk |-> chunks[Len(sentChunks) + 1], arrived |-> ok \/ retry])
            /\ spc' = spc
       ELSE sentChunks' = sentChunks /\ spc' = "done"
    /\ UNCHANGED <<msgText, maxLen, remaining, chunks,
                   botVars, extractVars, runVars, killVars, fileVars, schedVars,
                   cronVars, chatVars>>

NextSplit ==
    \/ splitMessage
    \/ splitLoop
    \/ \E ok, retry \in BOOLEAN : apiSend(ok, retry)

----------------------------------------------------------------------------
(***************************************************************************)
(* OllamaClient.Chat and ClearHistory (SpecChat).  The bot calls Chat from *)
(* the goroutine of each message, and the client has no lock: an append to *)
(* o.history is a read of the slice and a write of the longer one, and the *)
(* calls interleave between the two.  The model follows one Chat call at a  *)
(* time, with ClearHistory at any moment of it.  A message is its role and *)
(* the number of the Chat call it belongs to.                              *)
(***************************************************************************)
maxHistory == 12
MaxChats == 8
Callers == 1..1

SystemMessage == [role |-> "system", n |-> 0]
UserMessage(n) == [role |-> "user", n |-> n]
AssistantMessage(n) == [role |-> "assistant", n |-> n]

NoChat == [pc |-> "idle", n |-> 0, req |-> <<>>, h |-> <<>>]

\* start := 0; if len(o.history) > maxHistory { start = len(o.history) -
\* maxHistory }; o.history[start:]
Window(h) ==
    LET start == IF Len(h) > maxHistory THEN Len(h) - maxHistory ELSE 0
    IN  From(h, start)

ChatIdle == history = <<>> /\ chatters = [c \in Callers |-> NoChat] /\ nchats = 0

\* NewOllamaClient: history: []ChatMessage{}
InitChat == ChatIdle

\* Chat(userMessage) up to httpClient.Post: the request is the system
\* prompt, the recent history and the user's message.
Chat(c) ==
    /\ chatters[c].pc = "idle" /\ nchats < MaxChats
    /\ nchats' = nchats + 1
    /\ chatters' = [chatters EXCEPT ![c] =
          [pc |-> "Post", n |-> nchats + 1,
           req |-> <<SystemMessage>> \o Window(history) \o <<UserMessage(nchats + 1)>>,
           h |-> <<>>]]
    /\ UNCHANGED <<history, botVars, extractVars, runVars, killVars, fileVars, schedVars,
                   cronVars, splitVars>>

\* Post failed, the status was not 200 or the body did not decode: Chat
\* returns the error and saves nothing.
chatFailed(c) ==
    /\ chatters[c].pc = "Post"
    /\ chatters' = [chatters EXCEPT ![c] = NoChat]
    /\ UNCHANGED <<history, nchats, botVars, extractVars, runVars, killVars, fileVars,
                   schedVars, cronVars, splitVars>>

\* The response is decoded; append(o.history, user message) reads o.history.
chatDecoded(c) ==
    /\ chatters[c].pc = "Post"
    /\ chatters' = [chatters EXCEPT ![c] = [@ EXCEPT !.pc = "appendUser", !.req = <<>>, !.h = history]]
    /\ UNCHANGED <<history, nchats, botVars, extractVars, runVars, killVars, fileVars,
                   schedVars, cronVars, splitVars>>

\* o.history = append(o.history, ChatMessage{Role: "user", ...}): the write.
appendUser(c) ==
    /\ chatters[c].pc = "appendUser"
    /\ history' = Append(chatters[c].h, UserMessage(chatters[c].n))
    /\ chatters' = [chatters EXCEPT ![c] = [@ EXCEPT !.pc = "readHistory", !.h = <<>>]]
    /\ UNCHANGED <<nchats, botVars, extractVars, runVars, killVars, fileVars,
                   schedVars, cronVars, splitVars>>

\* append(o.history, chatResp.Message) reads o.history.
readHistory(c) ==
    /\ chatters[c].pc = "readHistory"
    /\ chatters' = [chatters EXCEPT ![c] = [@ EXCEPT !.pc = "appendReply", !.h = history]]
    /\ UNCHANGED <<history, nchats, botVars, extractVars, runVars, killVars, fileVars,
                   schedVars, cronVars, splitVars>>

\* o.history = append(o.history, chatResp.Message): the write, and Chat
\* returns the content.
appendReply(c) ==
    /\ chatters[c].pc = "appendReply"
    /\ history' = Append(chatters[c].h, AssistantMessage(chatters[c].n))
    /\ chatters' = [chatters EXCEPT ![c] = NoChat]
    /\ UNCHANGED <<nchats, botVars, extractVars, runVars, killVars, fileVars,
                   schedVars, cronVars, splitVars>>

\* ClearHistory: o.history = []ChatMessage{}
ClearHistory ==
    /\ history # <<>>
    /\ history' = <<>>
    /\ UNCHANGED <<chatters, nchats, botVars, extractVars, runVars, killVars, fileVars,
                   schedVars, cronVars, splitVars>>

NextChat ==
    \/ \E c \in Callers : Chat(c)
    \/ \E c \in Callers : chatFailed(c)
    \/ \E c \in Callers : chatDecoded(c)
    \/ \E c \in Callers : appendUser(c)
    \/ \E c \in Callers : readHistory(c)
    \/ \E c \in Callers : appendReply(c)
    \/ ClearHistory

MoreIdle == CronIdle /\ SplitIdle /\ ChatIdle

AuxIdle == KillIdle /\ FilesIdle /\ SchedIdle /\ MoreIdle

Init == InitBot /\ ExtractIdle /\ RunIdle /\ AuxIdle
Spec == Init /\ [][Next]_vars

InitCoreSpec == InitBot /\ ExtractIdle /\ RunIdle /\ AuxIdle
SpecCore == InitCoreSpec /\ [][NextCore]_vars

InitExtractSpec == BotIdle /\ InitExtract /\ RunIdle /\ AuxIdle
SpecExtract == InitExtractSpec /\ [][NextExtract]_vars

InitRunSpec == BotIdle /\ ExtractIdle /\ InitRun /\ AuxIdle
SpecRun == InitRunSpec /\ [][NextRun]_vars

InitKillSpec == BotIdle /\ ExtractIdle /\ RunIdle /\ InitKill /\ FilesIdle /\ SchedIdle /\ MoreIdle
SpecKill == InitKillSpec /\ [][NextKill]_vars

InitFilesSpec == BotIdle /\ ExtractIdle /\ RunIdle /\ KillIdle /\ InitFiles /\ SchedIdle /\ MoreIdle
SpecFiles == InitFilesSpec /\ [][NextFiles]_vars

InitSchedSpec == BotIdle /\ ExtractIdle /\ RunIdle /\ KillIdle /\ FilesIdle /\ InitSched /\ MoreIdle
SpecSched == InitSchedSpec /\ [][NextSched]_vars

InitCronSpec ==
    /\ BotIdle /\ ExtractIdle /\ RunIdle /\ KillIdle /\ FilesIdle /\ SchedIdle
    /\ InitCron /\ SplitIdle /\ ChatIdle

InitSplitSpec ==
    /\ BotIdle /\ ExtractIdle /\ RunIdle /\ KillIdle /\ FilesIdle /\ SchedIdle
    /\ CronIdle /\ InitSplit /\ ChatIdle
SpecSplit == InitSplitSpec /\ [][NextSplit]_vars

InitChatSpec ==
    /\ BotIdle /\ ExtractIdle /\ RunIdle /\ KillIdle /\ FilesIdle /\ SchedIdle
    /\ CronIdle /\ SplitIdle /\ InitChat
SpecChat == InitChatSpec /\ [][NextChat]_vars
SpecCron == InitCronSpec /\ [][NextCron]_vars

InitListSpec == BotIdle /\ ExtractIdle /\ RunIdle /\ KillIdle /\ FilesIdle /\ InitSched /\ MoreIdle
SpecList == InitListSpec /\ [][NextList]_vars

----------------------------------------------------------------------------
(***************************************************************************)
(* The confirmation gate (Spec).                                           *)
(***************************************************************************)

\* C1: in confirmation mode a command taken from LLM output runs only in the
\* handler of a /yes, and what runs is exactly the string the sender's slot
\* held when the accept looked it up; a natural-language or /ask turn runs
\* nothing.
C1_OnlyAcceptedSlotRuns ==
    ~autoExecute =>
        \A t \in TaskIds :
            tasks[t].ran # <<>> =>
                /\ tasks[t].kind = "yes"
                /\ Len(tasks[t].ran) = 1 /\ tasks[t].ran[1] \in tasks[t].slot

\* C2: a suggestion whose store completes, and has overlapped no other write
\* for the same operator, is what the operator's one slot then holds: it is
\* the one a later accept retrieves.
C2_LastStoreHeld ==
    [][\A t \in TaskIds :
          (/\ tasks[t].pc = "store_in" /\ tasks'[t].pc = "send"
           /\ tasks[t].from \notin tasks[t].rivals) =>
              /\ tasks[t].from \in DOMAIN pendingCmds'
              /\ pendingCmds'[tasks[t].from] = tasks[t].cmd]_vars

\* C3: no message-handling task is inside an access to the pending store
\* while another one is inside an access that writes it.  (The claim asks for
\* more, that no two are inside at all; this much any lock gives.)
C3_MutualExclusion ==
    \A t, u \in TaskIds :
        (t # u /\ Inside(tasks[t]) /\ Inside(tasks[u])) => ~tasks[u].mut

\* C4: a /no from an operator who has a command pending, overlapping no
\* new suggestion for that operator, leaves the operator
\* without a pending command (so that a following /yes finds nothing), and
\* its handler has run nothing.
C4_RejectClears ==
    [][\A t \in TaskIds :
          (/\ tasks[t].kind = "no"
           /\ tasks[t].pc = "delete_in" /\ tasks'[t].pc = "send"
           /\ tasks[t].slot # {}
           /\ tasks[t].from \notin tasks[t].rivals) =>
              /\ tasks[t].from \notin DOMAIN pendingCmds'
              /\ tasks'[t].ran = <<>>]_vars

\* C5: when the handler of a /yes is over and no other handler is running,
\* a confirmed command that ran has had its result fed to the LLM exactly
\* once, and the handler ran that one command only.
C5_ResultFedOnce ==
    \A t \in TaskIds :
        (/\ tasks[t].pc = "send" /\ tasks[t].kind = "yes"
         /\ tasks[t].ran # <<>> /\ ~tasks[t].runErr
         /\ tasks[t].ran[1] \in tasks[t].slot
         /\ \A u \in TaskIds \ {t} : tasks[u].pc = "idle") =>
            tasks[t].fed = 1 /\ Len(tasks[t].ran) = 1

\* The commands a natural-language turn executes in auto-execute mode.
Combined(reply) == Join(ExtractBashCommands(reply), <<NL>>)

\* C6: with auto_execute = true the pending store is never written, no task
\* is ever at a store, and a natural-language turn whose response holds at
\* least one command runs the extracted commands itself, in that turn.
C6_AutoExecuteBypassesGate ==
    autoExecute =>
        /\ DOMAIN pendingCmds = {}
        /\ \A t \in TaskIds :
              /\ tasks[t].pc \notin {"store", "store_in"}
              /\ ~tasks[t].mut
              /\ tasks[t].pc = "Run" =>
                    tasks[t].kind = "chat" /\ tasks[t].cmd = Combined(tasks[t].reply)
              /\ (tasks[t].pc = "send" /\ tasks[t].kind = "chat"
                    /\ ExtractBashCommands(tasks[t].reply) # <<>>) =>
                    tasks[t].ran = <<Combined(tasks[t].reply)>>

\* A natural-language turn in auto-execute mode has run the two commands of
\* its response.
C6_Witness ==
    /\ autoExecute
    /\ \E t \in TaskIds :
          /\ tasks[t].pc = "send" /\ tasks[t].kind = "chat"
          /\ Len(ExtractBashCommands(tasks[t].reply)) = 2
          /\ tasks[t].ran = <<Combined(tasks[t].reply)>>

Unauthorized(task) == task.pc # "idle" /\ task.from \notin AllowedIDs

\* C7: the handler of a message from a sender outside allowed_ids only sends
\* the unauthorized reply: it makes no LLM call, touches no pending command,
\* runs nothing, and its steps change nothing but itself.
C7_UnauthorizedInert ==
    /\ [](\A t \in TaskIds :
            Unauthorized(tasks[t]) =>
                /\ tasks[t].pc \in {"handleMessage", "send"}
                /\ tasks[t].pc = "send" =>
                      /\ tasks[t].said = "Unauthorized"
                      /\ tasks[t].ran = <<>> /\ tasks[t].fed = 0
                      /\ tasks[t].reply = <<>>)
    /\ [][\A t \in TaskIds :
            (/\ Unauthorized(tasks[t])
             /\ \/ tasks[t].pc = "handleMessage" /\ tasks'[t].pc = "send"
                \/ tasks[t].pc = "send" /\ tasks'[t].pc = "idle" /\ ~crashed') =>
                /\ pendingCmds' = pendingCmds
                /\ \A u \in TaskIds \ {t} : tasks'[u] = tasks[u]]_vars

\* An outsider's /yes was answered "Unauthorized" while an operator had a
\* command pending.
C7_Witness ==
    /\ DOMAIN pendingCmds # {}
    /\ \E t \in TaskIds :
          /\ tasks[t].from \notin AllowedIDs
          /\ tasks[t].kind = "yes"
          /\ tasks[t].pc = "send" /\ tasks[t].said = "Unauthorized"

----------------------------------------------------------------------------
(***************************************************************************)
(* ExtractBashCommands (SpecExtract).                                      *)
(***************************************************************************)
IsShell(seg) == seg.tag \in ShellTags
IsBlank(body) == TrimSpace(body) = <<>>
HasFence(body) == \E i \in 1..Len(body) : body[i] = Fence

\* A document whose blocks hold no fence of their own.
WellFormed(d) == \A i \in 1..Len(d) : ~HasFence(d[i].body)

RECURSIVE Contents(_)
\* The trimmed contents of the non-blank shell blocks of d, in order.
Contents(d) ==
    IF Len(d) = 0 THEN <<>>
    ELSE (IF IsShell(Head(d)) /\ ~IsBlank(Head(d).body)
          THEN <<TrimSpace(Head(d).body)>> ELSE <<>>) \o Contents(Tail(d))

\* C8: of a text with two shell blocks and one block in another language,
\* in any order and with or without prose before each, exactly the contents
\* of the two shell blocks are returned, in order.
C8_TwoShellOneOther ==
    (/\ xpc = "done"
     /\ Len(doc) = 3 /\ WellFormed(doc)
     /\ Cardinality({i \in 1..3 : IsShell(doc[i])}) = 2
     /\ \A i \in 1..3 : ~IsBlank(doc[i].body)) =>
        commands = Contents(doc)

\* C9: of a text made of shell blocks, one entry per block that is not white
\* space only is returned, in order, duplicates kept; and a block ends at the
\* first fence after its opening: a first block with a fence inside yields
\* what stands before that fence.
C9_ShellBlocksInOrder ==
    (xpc = "done" /\ \A i \in 1..Len(doc) : IsShell(doc[i])) =>
        /\ WellFormed(doc) => commands = Contents(doc)
        /\ HasFence(doc[1].body) =>
              LET body == doc[1].body
                  f == CHOOSE i \in 1..Len(body) :
                          body[i] = Fence /\ \A j \in 1..(i - 1) : body[j] # Fence
              IN  /\ commands # <<>>
                  /\ commands[1] = TrimSpace(SubSeq(body, 1, f - 1))

\* Three shell blocks, the middle one blank, the outer two alike: two equal
\* entries come back.
C9_Witness ==
    /\ xpc = "done"
    /\ Len(doc) = 3 /\ \A i \in 1..3 : IsShell(doc[i])
    /\ doc[1].body = <<"ls">> /\ IsBlank(doc[2].body) /\ doc[3].body = <<"ls">>
    /\ doc[2].prose # <<>>
    /\ commands = << <<"ls">>, <<"ls">> >>

----------------------------------------------------------------------------
(***************************************************************************)
(* Executor.Run (SpecRun).                                                 *)
(***************************************************************************)

\* C10: Run returns an error only for a process that could not be started;
\* a process that was started gives no error, and the result carries the
\* exit status, or the timeout's exit code when the deadline had passed.
C10_OnlyStartFailureIsError ==
    rpc = "done" =>
        /\ runResult.err # Nil => ~outcome.started
        /\ outcome.started =>
              /\ runResult.err = Nil
              /\ outcome.expired => runResult.result.ExitCode = TimeoutSentinel
              /\ (~outcome.expired /\ outcome.end = "exit") =>
                    runResult.result.ExitCode = outcome.status

\* A command that exited with a nonzero status came back without an error.
C10_Witness ==
    /\ rpc = "done"
    /\ outcome.started /\ ~outcome.expired
    /\ outcome.end = "exit" /\ outcome.status = MaxStatus
    /\ runResult.err = Nil
    /\ runResult.result.ExitCode = MaxStatus

\* C11: the result of a Run that returned one carries the timeout sentinel
\* exactly when the deadline had passed; a run that ended for another
\* reason (an exit status, a signal) does not carry it.
C11_SentinelIffTimeout ==
    (rpc = "done" /\ runResult.err = Nil) =>
        (runResult.result.ExitCode = TimeoutSentinel <=> outcome.expired)

\* What the cap makes of a captured stream.
Capped(s) ==
    IF Len(s) > MaxOutputBytes THEN SubSeq(s, 1, MaxOutputBytes) \o TruncMarker ELSE s

\* C12: in every result, stdout is the captured stream, cut to the cap and
\* marked when longer; so is stderr (with the timeout's diagnostic line after
\* it when the deadline had passed); and Truncated tells whether a captured
\* stream was longer than the cap.
C12_TruncationPerStream ==
    (rpc = "done" /\ runResult.err = Nil) =>
        LET out == Stream(outcome.stdout)
            err == Stream(outcome.stderr)
            r == runResult.result
        IN  /\ r.Stdout = Capped(out)
            /\ r.Stderr = IF outcome.expired THEN Capped(err) \o TimeoutMarker
                          ELSE Capped(err)
            /\ r.Truncated <=> (Len(out) > MaxOutputBytes \/ Len(err) > MaxOutputBytes)

----------------------------------------------------------------------------
(***************************************************************************)
(* The processes of a Run that timed out (SpecKill).                       *)
(***************************************************************************)

\* C13: once Run has returned the timeout sentinel, no process the command
\* started is still running: not bash, not a process bash spawned.
C13_GroupTerminated ==
    (kpc = "done" /\ waitResult = TimeoutSentinel) => ~Running(procs)

----------------------------------------------------------------------------
(***************************************************************************)
(* The workspace file operations (SpecFiles).                              *)
(***************************************************************************)
HasSeparator(name) == name.abs \/ Len(name.comps) > 1
HasParentRef(name) == \E i \in 1..Len(name.comps) : name.comps[i] = DotDot

\* C14: RunScript of a filename with a path separator or a parent-directory
\* component returns an error and executes nothing, whatever the path it
\* resolves to.
C14_RunScriptRejectsPaths ==
    (fpc = "done" /\ fop = "RunScript"
        /\ (HasSeparator(fname) \/ HasParentRef(fname))) =>
        fresult.err # Nil /\ fresult.ran = NoPath

\* C15: SaveFile, ReadFile and DeleteFile answer a filename with a
\* parent-directory component by an error, and what they read, write or
\* delete lies inside the workspace and is not the workspace itself.
C15_FileOpsConfined ==
    (fpc = "done" /\ fop \in {"SaveFile", "ReadFile", "DeleteFile"}) =>
        /\ HasParentRef(fname) => fresult.err # Nil
        /\ fresult.path # NoPath => Under(Workspace, fresult.path)

----------------------------------------------------------------------------
(***************************************************************************)
(* The Scheduler (SpecSched).                                              *)
(***************************************************************************)
\* The step is the first one of a call of op.
Called(op) == ncalls' = ncalls + 1 /\ call'.op = op

\* C16: an Add with an id that is in the table returns the duplicate-id
\* error and leaves the table (so the original job's fields), the timers,
\* the EntryID counter and the persisted file as they were.
C16_DuplicateAddRejected ==
    [][(Called("Add") /\ call'.id \in DOMAIN jobs) =>
          /\ ret' = [op |-> "Add", id |-> call'.id, err |-> "already exists"]
          /\ jobs' = jobs /\ timers' = timers /\ nextEntry' = nextEntry
          /\ file' = file /\ mu' = Free]_vars

\* A second Add for an id, asking for another spec, was refused.
C16_Witness ==
    /\ call.op = "Add" /\ ret = [op |-> "Add", id |-> call.id, err |-> "already exists"]
    /\ call.id \in DOMAIN jobs /\ jobs[call.id].Spec # call.spec
    /\ Parses(call.spec)

C18_RemoveIffPresent ==
    (mu = Free /\ ret.op = "Remove" /\ ret.err = Nil /\ call.op = "Remove") =>
        /\ ret.id \notin DOMAIN jobs
        /\ \A e \in DOMAIN timers : timers[e].id # ret.id
        /\ ret.id \notin DOMAIN file.jobs

\* C19: when a successful Add, a successful Remove or the end of a run has
\* returned and released the lock, the persisted file holds exactly the jobs
\* of the table with their current fields.
C19_FileIsTable ==
    (mu = Free /\ ret.op \in {"Add", "Remove", "runJob"} /\ ret.err = Nil) =>
        file = [exists |-> TRUE, jobs |-> Marshal(jobs)]

\* C20: a new Scheduler loads every job of the file whose spec parses under
\* its id with spec, command, label, created and last-run as in the file,
\* and registers a timer for it; when the file is the persisted table, the
\* loaded table is that table.
C20_PersistLoadRoundTrip ==
    [][Called("NewScheduler") =>
          /\ \A k \in DOMAIN file.jobs :
                Parses(file.jobs[k].Spec) =>
                    /\ k \in DOMAIN jobs'
                    /\ Persisted(jobs'[k]) = file.jobs[k]
          /\ \A id \in DOMAIN jobs' :
                /\ jobs'[id].EntryID \in DOMAIN timers'
                /\ timers'[jobs'[id].EntryID].id = id
          /\ file = [exists |-> TRUE, jobs |-> Marshal(jobs)] =>
                /\ DOMAIN jobs' = DOMAIN jobs
                /\ \A id \in DOMAIN jobs :
                      /\ jobs'[id].Spec = jobs[id].Spec
                      /\ jobs'[id].Command = jobs[id].Command
                      /\ jobs'[id].Label = jobs[id].Label
                      /\ jobs'[id].Created = jobs[id].Created
                      /\ jobs'[id].LastRun = jobs[id].LastRun]_vars

\* A new Scheduler has loaded two jobs, one of which had run.
C20_Witness ==
    /\ call.op = "NewScheduler"
    /\ Cardinality(DOMAIN jobs) = 2
    /\ \E id \in DOMAIN jobs : jobs[id].LastRun # ZeroTime
    /\ file = [exists |-> TRUE, jobs |-> Marshal(jobs)]

\* C21: a new Scheduler skips a job of the file whose spec does not parse,
\* with no table entry, no timer and no error returned, and loads and
\* schedules every other job of the file.
C21_LoadSkipsBadSpec ==
    [][Called("NewScheduler") =>
          /\ ret'.err = Nil
          /\ \A k \in DOMAIN file.jobs :
                IF Parses(file.jobs[k].Spec)
                THEN /\ k \in DOMAIN jobs'
                     /\ jobs'[k].EntryID \in DOMAIN timers'
                     /\ timers'[jobs'[k].EntryID].id = k
                ELSE /\ k \notin DOMAIN jobs'
                     /\ \A e \in DOMAIN timers' : timers'[e].id # k]_vars

\* A new Scheduler was built on a file with a job that parses and one that
\* does not.
C21_Witness ==
    /\ call.op = "NewScheduler" /\ ret.err = Nil
    /\ \E k \in DOMAIN file.jobs : ~Parses(file.jobs[k].Spec) /\ k \notin DOMAIN jobs
    /\ \E k \in DOMAIN file.jobs : Parses(file.jobs[k].Spec) /\ k \in DOMAIN jobs

\* C22: while the caller of List holds the jobs it was handed, no run writes
\* the LastRun of one of them.
C22_ListSnapshotSafe ==
    [][lister.pc = "format" =>
          \A r \in RunIds :
              (runs[r].pc = "Lock" /\ runs'[r].pc = "persist") =>
                  runs[r].entry \notin lister.snap]_vars

\* C23: the lock is held by a run only after its command has returned, and
\* while a command is running with the lock free, Add, Remove, List and the
\* locked section of any other run that is waiting for it can be entered.
C23_NoLockAcrossRun ==
    /\ mu.op = "runJob" => runs[mu.run].pc = "persist"
    /\ \A r \in RunIds :
          (runs[r].pc = "Run" /\ mu = Free) =>
              /\ ncalls < MaxCalls =>
                    /\ \A id \in Ids : ENABLED Remove(id)
                    /\ \A id \in DOMAIN jobs, q \in Requests : ENABLED Add(id, q)
                    /\ lister.pc = "idle" => ENABLED List
              /\ \A u \in RunIds :
                    (runs[u].pc = "Lock" /\ now < MaxTime) => ENABLED runJobLock(u)

\* While the command of one job is running, the caller of List is
\* formatting the list it got and the run of another job holds the lock.
C23_Witness ==
    \E r \in RunIds :
        /\ runs[r].pc = "Run"
        /\ mu.op = "runJob" /\ mu.run # r /\ runs[mu.run].id # runs[r].id
        /\ lister.pc = "format"

\* C24: a run goes through Run, the last-run update, the rewrite of the
\* file and the notification in this order; it runs the command of its
\* job, sets the job's LastRun to the time of the update, leaves the file
\* equal to the table and sends one message with the job's id and label and
\* the error of Run, whatever Run returned.
C24_TriggerSequence ==
    [][~Called("NewScheduler") =>
          \A r \in RunIds :
              /\ runs'[r].pc # runs[r].pc =>
                    <<runs[r].pc, runs'[r].pc>> \in
                        { <<"idle", "Run">>, <<"Run", "Lock">>, <<"Lock", "persist">>,
                          <<"persist", "notify">>, <<"notify", "idle">> }
              /\ (runs[r].pc = "idle" /\ runs'[r].pc = "Run") =>
                    \E e \in DOMAIN timers :
                        /\ runs'[r].entry = e /\ runs'[r].command = timers[e].command
                        /\ \A id \in DOMAIN jobs :
                              jobs[id].EntryID = e => jobs[id].Command = runs'[r].command
              /\ (runs[r].pc = "Lock" /\ runs'[r].pc = "persist") =>
                    \A id \in DOMAIN jobs :
                        jobs[id].EntryID = runs[r].entry => jobs'[id].LastRun = now
              /\ (runs[r].pc = "persist" /\ runs'[r].pc = "notify") =>
                    /\ file' = [exists |-> TRUE, jobs |-> Marshal(jobs)]
                    /\ runs'[r].msg = [id |-> runs[r].id, label |-> runs[r].label,
                                       err |-> runs[r].err]]_vars

\* C30: a cron entry can fire whenever a goroutine can be started, whatever
\* runs of the same job are in flight.
C30_OverlappingRuns ==
    \A e \in DOMAIN timers :
        (\E r \in RunIds : runs[r].pc = "idle") => ENABLED (\E r \in RunIds : Trigger(e, r))

\* Two runs of one job are in flight; each has recorded last-run and has its
\* own message to send.
C30_Witness ==
    /\ runs[1].pc = "notify" /\ runs[2].pc = "notify"
    /\ runs[1].entry = runs[2].entry
    /\ runs[1].msg.id = runs[2].msg.id /\ runs[1].msg.id \in Ids
    /\ \E id \in DOMAIN jobs : jobs[id].EntryID = runs[1].entry /\ jobs[id].LastRun # ZeroTime

----------------------------------------------------------------------------
(***************************************************************************)
(* The /cron messages (SpecCron).                                          *)
(***************************************************************************)
\* The message has been handled.
CronHandled == cpc = "idle" /\ cn > 0

\* C25: once the message the help text gives for a request is handled, an
\* add with a schedule of the documented grammar has reached Scheduler.Add
\* and its id is in the table, a list has been answered with the job list,
\* and an rm has reached Scheduler.Remove for its id.
C25_CronCommandsReachScheduler ==
    CronHandled =>
        /\ cmsg.req.op = "add" =>
              ccall.op = "Add" /\ ccall.id = cmsg.req.id /\ cmsg.req.id \in DOMAIN cjobs
        /\ cmsg.req.op \in {"list", "none"} => creply = "job list"
        /\ cmsg.req.op = "rm" => ccall.op = "Remove" /\ ccall.id = cmsg.req.id

\* The label of a request as Scheduler.Add should get it.
LabelOf(req) == IF req.label = <<>> THEN <<req.id>> ELSE JoinWords(req.label)

\* C26: the header of an add request is split into the id, the whole
\* schedule and the label (the id when no word follows the schedule), and
\* these are what Scheduler.Add is called with.
C26_HeaderSplit ==
    cmsg.req.op = "add" =>
        /\ LET h == SplitHeader(<<cmsg.req.id>> \o Fields(cmsg.req.spec) \o cmsg.req.label)
           IN  h.ok /\ h.id = cmsg.req.id /\ h.spec = cmsg.req.spec
                    /\ h.label = LabelOf(cmsg.req)
        /\ CronHandled =>
              /\ ccall.op = "Add" /\ ccall.id = cmsg.req.id
              /\ ccall.spec = cmsg.req.spec /\ ccall.label = LabelOf(cmsg.req)

----------------------------------------------------------------------------
(***************************************************************************)
(* The bot without the LLM (SpecCore).                                     *)
(***************************************************************************)
\* The step is the return of the Chat call of task t (a task leaves the call
\* in no other way but the end of the process).
ChatReturned(t) == tasks[t].pc = "Post" /\ tasks'[t].pc \notin {"Post", "idle"}
ChatCallFailed(t) == ChatReturned(t) /\ tasks'[t].reply = <<>>

\* C27: a natural-language turn whose Chat call fails only reports the
\* error: it has run nothing and the pending commands are as they were.
\* An /exec and a /run never call the LLM.  An accept calls it only after it
\* has run the command and has the result to report, and ends in the same
\* way whether that call fails or not.  A command about to run can run
\* whatever the other messages are waiting for.
C27_CoreWithoutLLM ==
    /\ [](\A t \in TaskIds :
            tasks[t].pc = "Post" =>
                \/ tasks[t].kind \in {"chat", "ask"}
                \/ /\ tasks[t].kind = "yes"
                   /\ Len(tasks[t].ran) = 1 /\ tasks[t].said = "result")
    /\ [](\A t \in TaskIds :
            /\ (tasks[t].kind \in {"exec", "yes"} /\ tasks[t].pc = "Run") =>
                  ENABLED (\E o \in BotOutcomes : ExecutorRun(t, o))
            /\ (tasks[t].kind = "run" /\ tasks[t].pc = "RunScript") =>
                  ENABLED (\E found \in BOOLEAN, o \in BotOutcomes : handleRunScript(t, found, o)))
    /\ [][\A t \in TaskIds :
            /\ (ChatCallFailed(t) /\ tasks[t].kind = "chat") =>
                  /\ tasks'[t].pc = "send" /\ tasks'[t].said = "Ollama error"
                  /\ tasks'[t].ran = <<>>
                  /\ pendingCmds' = pendingCmds
            /\ (ChatReturned(t) /\ tasks[t].kind = "yes") =>
                  /\ tasks'[t].pc = "send" /\ tasks'[t].said = "result"
                  /\ tasks'[t].ran = tasks[t].ran
                  /\ pendingCmds' = pendingCmds]_vars

\* A natural-language turn has failed at the LLM, its sender's pending
\* command is still there, and an /exec has run its command.
C27_Witness ==
    \E t, u \in TaskIds :
        /\ tasks[t].kind = "chat" /\ tasks[t].pc = "send" /\ tasks[t].said = "Ollama error"
        /\ tasks[t].from \in DOMAIN pendingCmds
        /\ tasks[u].kind = "exec" /\ tasks[u].pc = "send" /\ tasks[u].ran = <<ExecText>>

----------------------------------------------------------------------------
(***************************************************************************)
(* Splitting and sending a message (SpecSplit).                            *)
(***************************************************************************)
RECURSIVE Concat(_)
Concat(cs) == IF cs = <<>> THEN <<>> ELSE Head(cs) \o Concat(Tail(cs))

\* C28: for maxLen >= 2 splitMessage ends, each turn of its loop leaving
\* less text than it found; its chunks are at most maxLen long, non-empty
\* for a non-empty text, and their concatenation in order is the text; a
\* text of at most maxLen is one chunk; and sendMessage hands the chunks to
\* Send in that order, all of them.
C28_SplitMessage ==
    /\ [](maxLen >= 2 =>
            /\ \A i \in 1..Len(chunks) :
                  /\ Len(chunks[i]) <= maxLen
                  /\ msgText # <<>> => chunks[i] # <<>>
            /\ spc = "loop" => (Concat(chunks) \o remaining = msgText /\ ENABLED splitLoop)
            /\ spc \in {"Send", "done"} =>
                  /\ Concat(chunks) = msgText
                  /\ Len(msgText) <= maxLen => chunks = <<msgText>>
            /\ Len(sentChunks) <= Len(chunks)
            /\ \A i \in 1..Len(sentChunks) : sentChunks[i].chunk = chunks[i]
            /\ spc = "done" => Len(sentChunks) = Len(chunks))
    /\ [][(maxLen >= 2 /\ spc = "loop" /\ spc' = "loop") =>
            Len(remaining') < Len(remaining)]_vars

\* A text was split in three chunks or more, one of them cut short at a
\* newline, and all were handed to Send.
C28_Witness ==
    /\ maxLen >= 2 /\ spc = "done" /\ Len(chunks) >= 3
    /\ \E i \in 1..(Len(chunks) - 1) :
          Len(chunks[i]) < maxLen /\ Head(chunks[i + 1]) = NL
    /\ Len(sentChunks) = Len(chunks)

----------------------------------------------------------------------------
(***************************************************************************)
(* The history of the LLM client (SpecChat).                               *)
(***************************************************************************)
\* The messages a request carries between the system prompt and the user's
\* message.
Carried(req) == SubSeq(req, 2, Len(req) - 1)

\* C29: the history the client keeps never has more than maxHistory
\* messages; the request of a Chat call carries, between the system prompt
\* and the new message, the last messages of the history, maxHistory of
\* them at most, in the order they have there; and ClearHistory leaves the
\* history empty.
C29_BoundedHistory ==
    /\ [](Len(history) <= maxHistory)
    /\ [][\A c \in Callers :
            (chatters[c].pc = "idle" /\ chatters'[c].pc = "Post") =>
                LET req == chatters'[c].req
                    k == Len(Carried(req))
                IN  /\ req[1] = SystemMessage
                    /\ req[Len(req)] = UserMessage(chatters'[c].n)
                    /\ k = IF Len(history) < maxHistory THEN Len(history) ELSE maxHistory
                    /\ \A i \in 1..k : Carried(req)[i] = history[Len(history) - k + i]]_vars
    /\ [][ClearHistory => history' = <<>>]_vars

----------------------------------------------------------------------------
(***************************************************************************)
(* Concurrent accepts and the operators' slots (Spec).                     *)
(***************************************************************************)
\* The handler of a /yes has passed a command to Executor.Run.
Executed(t) == tasks[t].kind = "yes" /\ tasks[t].ran # <<>>

\* Of the messages received so far two are accepts: at most one of the
\* others was a turn that stored a suggestion.
OneSuggestionAtMost == nmsgs <= 3

\* C31: a stored suggestion is executed at most once: while an operator has
\* been given one suggestion at most, no two handlers of a /yes of that
\* operator have both called Executor.Run.
C31_ExecutedAtMostOnce ==
    OneSuggestionAtMost =>
        \A t, u \in TaskIds :
            (t # u /\ tasks[t].from = tasks[u].from /\ Executed(t)) => ~Executed(u)

\* Task t ends a store or a delete in this step.
EndsWrite(t) == tasks[t].pc \in {"store_in", "delete_in"} /\ tasks'[t].pc # tasks[t].pc

\* The strings that belong to the operators other than id: held in their
\* slots or being stored there.
OfOthers(id) == UNION {Held(o) \cup Storing(o) : o \in AllowedIDs \ {id}}

\* C33: the operators' slots are isolated: while the process lives, what
\* an operator's slot holds changes only in a step in which the handler of
\* a message of that operator ends its store or delete, and the command an
\* accept gets from its lookup is not one that only other operators have.
C33_OperatorsIsolated ==
    [][~crashed' =>
        /\ \A id \in AllowedIDs :
              Held(id)' # Held(id) =>
                  \E t \in TaskIds : tasks[t].from = id /\ EndsWrite(t)
        /\ \A t \in TaskIds :
              (tasks[t].pc = "lookup_in" /\ tasks'[t].pc = "delete") =>
                  \/ tasks'[t].cmd \notin OfOthers(tasks[t].from)
                  \/ tasks'[t].cmd \in Held(tasks[t].from) \cup Storing(tasks[t].from)]_vars

----------------------------------------------------------------------------
(***************************************************************************)
(* Removed jobs, timers and skipped jobs (SpecSched).                      *)
(***************************************************************************)
\* Run r is in flight for a job that Remove has taken out since it began.
Orphan(r) == runs[r].pc # "idle" /\ runs[r].entry \notin DOMAIN timers

\* C32: the completion of a run whose job was removed meanwhile changes
\* nothing in the table (neither its ids nor, if the id was added again,
\* the new job's fields), and the file it writes is the table as it is: the
\* removed id is in the file afterwards only if it was there before or is
\* in the table again.
C32_RemovedNotResurrected ==
    [][\A r \in RunIds :
          /\ (Orphan(r) /\ runs[r].pc = "Lock" /\ runs'[r].pc = "persist") =>
                jobs' = jobs
          /\ (Orphan(r) /\ runs[r].pc = "persist" /\ runs'[r].pc = "notify") =>
                /\ jobs' = jobs
                /\ \/ file' = file
                   \/ file' = [exists |-> TRUE, jobs |-> Marshal(jobs)]
                /\ runs[r].id \in DOMAIN file'.jobs =>
                      \/ runs[r].id \in DOMAIN file.jobs
                      \/ runs[r].id \in DOMAIN jobs]_vars

\* A run has completed after its job was removed and the id added again.
C32_Witness ==
    \E r \in RunIds :
        /\ runs[r].pc = "notify" /\ Orphan(r)
        /\ runs[r].id \in DOMAIN jobs
        /\ jobs[runs[r].id].EntryID # runs[r].entry
        /\ jobs[runs[r].id].LastRun = ZeroTime

\* The timers registered for id.
TimersOf(id) == {e \in DOMAIN timers : timers[e].id = id}

\* C34: the jobs of the table and the registered timers are the same: each
\* job's EntryID is a registered timer of that job and the only one, and
\* every timer is of a job of the table.  (An Add or a Remove changes the
\* two in one step of the model, under the lock.)
C34_TimersMatchTable ==
    /\ \A id \in DOMAIN jobs :
          jobs[id].EntryID \in DOMAIN timers /\ TimersOf(id) = {jobs[id].EntryID}
    /\ \A e \in DOMAIN timers : timers[e].id \in DOMAIN jobs

\* An Add has just failed, after a Remove and an Add that succeeded.
C34_Witness ==
    /\ ret.op = "Add" /\ ret.err # Nil /\ mu = Free
    /\ jobs # <<>>
    /\ nextEntry > Cardinality(DOMAIN timers)
    /\ \E id \in DOMAIN jobs : jobs[id].Created # ZeroTime

\* The jobs of the file that a load skips.
SkippedInFile == {k \in DOMAIN file.jobs : ~Parses(file.jobs[k].Spec)}

\* C35: when an Add or a Remove that succeeded, or the completion of a
\* trigger, has called persist and returns, the file holds no job that a
\* load skips: it was rewritten from the table.
C35_SkippedJobDropped ==
    [][(mu # Free /\ mu' = Free) => SkippedInFile' = {}]_vars

====
